---- MODULE Spec2Model ----
(***************************************************************************)
(* A model of the OpenFaaS functions operator                              *)
(* (src/src/operator/controller/mod.rs): one OpenFaaSFunction declaration, *)
(* the Deployments, Services and Secrets of the functions namespace, the   *)
(* controller's work queue, and one action per reconcile pass.  A pass is  *)
(* the whole of OperatorInner::reconcile, every API call it makes          *)
(* included; the calls are logged in the order the code issues them.       *)
(***************************************************************************)
EXTENDS Integers, Sequences, FiniteSets, TLC

VARIABLES
    update_strategy,  \* OperatorInner.update_strategy
    crd_namespace,    \* metadata.namespace of the declaration
    spec,             \* the declaration's spec
    status,           \* the declaration's persisted status (None or Some(condition))
    deployments,      \* Deployments of the functions namespace, by name
    services,         \* Services of the functions namespace, by name
    secrets,          \* names of the Secrets of the functions namespace
    queued,           \* the declaration's key is in the controller's queue
    requeue,          \* a timed requeue of the key is pending
    running,          \* the operator process is alive
    last,             \* what the pass that has just ended did (NoPass otherwise)
    spec_changes,     \* spec mutations made so far
    renamed,          \* spec.service was changed while the declaration was reconciled
    secrets_missed,   \* a pass stopped on SecretsNotFound since the last spec change
    deleted,          \* the declaration has been deleted from the cluster
    constraints,      \* spec.constraints handed to to_node_selector
    node_selector,    \* what to_node_selector returned
    namesapce,        \* the namespace handed to operator_controller_run_args
    update_strategy_arg, \* the strategy handed to operator_controller_run_args
    args,             \* the argument vector it returned
    cli,              \* what Cli::parse_from made of the argument vector
    translated,       \* the functions of the translation layer applied so far
    declarations      \* the passes and statuses of declarations sharing a service name

vars == <<update_strategy, crd_namespace, spec, status, deployments, services,
          secrets, queued, requeue, running, last, spec_changes, renamed,
          secrets_missed, deleted, constraints, node_selector, namesapce,
          update_strategy_arg, args, cli, translated, declarations>>

\* the inputs and results of the translation layer and of the command line
translation == <<constraints, node_selector, namesapce, update_strategy_arg,
                 args, cli, translated>>

----------------------------------------------------------------------------
(* Bounds of the model *)

MaxSpecChanges == 1

----------------------------------------------------------------------------
(* Values *)

None == << >>
Some(x) == <<x>>

FunctionsNamespace == "openfaas-fn"
OtherNamespace == "other-ns"

CrdName == "f1"
CrdUid == "uid-f1"

\* names a Deployment or a Service can have, in the order a list returns them
NameOrder == <<"a", "b">>
Names == {NameOrder[i] : i \in 1..Len(NameOrder)}

SecretLists == {<< >>, <<"s1">>, <<"s1", "s2", "s1">>}

Images == {"img1", "img2"}

ValidQuantities == {"100m"}
QuantityStrings == ValidQuantities \cup {"notaquantity"}

\* Deployment.status as the code reads it: status None, ready_replicas None,
\* ready_replicas Some(0), ready_replicas Some(1)
ReadyStates == {"no_status", "no_ready_replicas", "ready_0", "ready_1"}

LimitsValues ==
    { None,
      Some([memory |-> None, cpu |-> Some("100m")]),
      Some([memory |-> None, cpu |-> Some("notaquantity")]),
      Some([memory |-> Some("notaquantity"), cpu |-> Some("notaquantity")]) }

UpdateStrategy == {"OneWay", "Strategic"}

OpenFaasFunctionPossibleStatus ==
    { "Ok", "InvalidCRDNamespace", "InvalidFunctionNamespace", "CPUQuantity",
      "MemoryQuantity", "DeploymentAlreadyExists", "DeploymentNotReady",
      "ServiceAlreadyExists", "SecretsNotFound" }

\* From<OpenFaasFunctionPossibleStatus> for the persisted status: one Ready
\* condition
StatusFrom(reason) ==
    [type |-> "Ready",
     status |-> IF reason = "Ok" THEN "True" ELSE "False",
     reason |-> reason]

\* OpenFaasFunctionStatus::possible_status
possible_status(func_status) ==
    IF func_status.reason \in OpenFaasFunctionPossibleStatus
    THEN Some(func_status.reason)
    ELSE None

----------------------------------------------------------------------------
(* The spec and its projections (src/src/crds/impls.rs) *)

to_name(s) == s.service

RECURSIVE UniqueSeq(_, _)
UniqueSeq(seq, seen) ==
    IF seq = << >> THEN << >>
    ELSE IF Head(seq) \in seen THEN UniqueSeq(Tail(seq), seen)
    ELSE <<Head(seq)>> \o UniqueSeq(Tail(seq), seen \cup {Head(seq)})

get_secrets_unique_vec(s) == UniqueSeq(s.secrets, {})

SeqToSet(seq) == {seq[i] : i \in 1..Len(seq)}

\* serde_json::to_string(spec) as stored in the last-applied annotation
ToJson(s) ==
    [service |-> s.service, image |-> s.image, namespace |-> s.namespace,
     secrets |-> s.secrets, limits |-> s.limits]

\* to_meta_annotations without the last-applied entry
to_meta_annotations_without_last_applied(s) == None

to_meta_annotations(s) == Some(ToJson(s))

\* ParsedQuantity::try_from
ParsesAsQuantity(q) == q \in ValidQuantities

\* FunctionResourcesQuantity::try_from: memory is parsed before cpu
ResourcesError(r) ==
    IF r.memory # None /\ ~ParsesAsQuantity(r.memory[1]) THEN "Memory"
    ELSE IF r.cpu # None /\ ~ParsesAsQuantity(r.cpu[1]) THEN "CPU"
    ELSE "none"

try_to_limits(s) == IF s.limits # None THEN ResourcesError(s.limits[1]) ELSE "none"

\* kube's Resource::controller_owner_ref: None without a name or a uid
controller_owner_ref(crd) == IF crd.uid = None THEN None ELSE Some(crd.uid[1])

\* the projection of the Deployment without the controller owner reference
DeploymentTryFrom_without_owner_reference(crd) ==
    IF controller_owner_ref(crd) = None
    THEN [ok |-> FALSE, error |-> "OwnerReference"]
    ELSE IF try_to_limits(crd.spec) # "none"
    THEN [ok |-> FALSE, error |-> try_to_limits(crd.spec)]
    ELSE [ok |-> TRUE, error |-> "none",
          name |-> to_name(crd.spec),
          object |-> [orefs |-> {},
                      ready |-> "no_status",
                      annotation |-> to_meta_annotations(crd.spec)]]

\* TryFrom<&OpenFaaSFunction> for Deployment
DeploymentTryFrom(crd) ==
    IF controller_owner_ref(crd) = None
    THEN [ok |-> FALSE, error |-> "OwnerReference"]
    ELSE IF try_to_limits(crd.spec) # "none"
    THEN [ok |-> FALSE, error |-> try_to_limits(crd.spec)]
    ELSE [ok |-> TRUE, error |-> "none",
          name |-> to_name(crd.spec),
          object |-> [orefs |-> {controller_owner_ref(crd)[1]},
                      ready |-> "no_status",
                      annotation |-> to_meta_annotations(crd.spec)]]

\* TryFrom<&OpenFaaSFunction> for Service
ServiceTryFrom(crd) ==
    IF controller_owner_ref(crd) = None
    THEN [ok |-> FALSE, error |-> "OwnerReference"]
    ELSE [ok |-> TRUE, error |-> "none",
          name |-> to_name(crd.spec),
          object |-> [orefs |-> {controller_owner_ref(crd)[1]},
                      annotation |-> to_meta_annotations(crd.spec)]]

\* serde_json::to_string(self) of to_meta_annotations returned an Err: the
\* projection fails with a FunctionSpecIntoDeploymentError that is no Quantity
SerializeFailed == [ok |-> FALSE, error |-> "Serialize"]

\* the conversion with a catch-all arm: every other error becomes
\* MemoryQuantity
ErrorToStatus_catch_all(error) ==
    IF error = "CPU" THEN Some("CPUQuantity") ELSE Some("MemoryQuantity")

\* From<&FunctionIntoDeploymentError> for Option<status>
ErrorToStatus(error) ==
    IF error = "Memory" THEN Some("MemoryQuantity")
    ELSE IF error = "CPU" THEN Some("CPUQuantity")
    ELSE None

Unimplemented == "panic"

\* OpenFaasFunctionSpec::deployment_needs_recreation: its body is unimplemented!()
deployment_needs_recreation(s, deployment) == Unimplemented

----------------------------------------------------------------------------
(* A reconcile pass.  The context c carries the cluster as the pass sees    *)
(* and changes it, the API calls issued so far, the index of the API call   *)
(* that fails in this pass (0: none), and how the current step returned:    *)
(* "none" (Ok(None)), "await" (Ok(Some(Action::await_change()))), "error"   *)
(* (Err) or "panic".                                                        *)

Context(fault) ==
    [deps |-> deployments, svcs |-> services, status |-> status,
     calls |-> << >>, steps |-> << >>, fault |-> fault,
     dep_get |-> "not_fetched", ret |-> "none", error |-> "none",
     error_status |-> None, serialize_error |-> FALSE, generate |-> "none"]

\* the API call about to be issued is the one that fails
Failing(c) == c.fault = Len(c.calls) + 1

Called(c, api, verb, arg) == [c EXCEPT !.calls = Append(@, <<api, verb, arg>>)]

Returned(c, ret) == [c EXCEPT !.ret = ret]

Failed(c, error) == [c EXCEPT !.ret = "error", !.error = error]

Entered(c, step) == [c EXCEPT !.steps = Append(@, step)]

Stopped(c) == c.ret # "none"

\* c bound to its value once and handed to F: the result of one step is
\* computed before the next step reads it
Then(c, F(_)) == CHOOSE r \in {F(x) : x \in {c}} : TRUE

\* replace_status without the comparison with the persisted reason
replace_status_always_writes(c, status_arg) ==
    IF Failing(c)
    THEN [Failed(Called(c, "openfaasfunctions", "replace_status", status_arg),
                 "SetStatus") EXCEPT !.error_status = Some(status_arg)]
    ELSE Returned(
             [Called(c, "openfaasfunctions", "replace_status", status_arg)
                 EXCEPT !.status = Some(StatusFrom(status_arg))],
             "none")

\* replace_status dropping the error of a failed write
replace_status_failure_ignored(c, status_arg) ==
    IF c.status # None /\ possible_status(c.status[1]) = Some(status_arg)
    THEN Returned(c, "none")
    ELSE IF Failing(c)
    THEN Returned(Called(c, "openfaasfunctions", "replace_status", status_arg), "none")
    ELSE Returned(
             [Called(c, "openfaasfunctions", "replace_status", status_arg)
                 EXCEPT !.status = Some(StatusFrom(status_arg))],
             "none")

\* OperatorInner::replace_status on the declaration as get_status returned it
replace_status(c, status_arg) ==
    IF c.status # None /\ possible_status(c.status[1]) = Some(status_arg)
    THEN Returned(c, "none")
    ELSE IF Failing(c)
    THEN [Failed(Called(c, "openfaasfunctions", "replace_status", status_arg),
                 "SetStatus") EXCEPT !.error_status = Some(status_arg)]
    ELSE Returned(
             [Called(c, "openfaasfunctions", "replace_status", status_arg)
                 EXCEPT !.status = Some(StatusFrom(status_arg))],
             "none")

\* api.get_status(&name) followed by self.replace_status: the api is scoped to
\* the functions namespace, so the read finds the declaration only there
write_status(c, crd, status_arg) ==
    IF Failing(c) \/ crd.namespace # FunctionsNamespace
    THEN Failed(Called(c, "openfaasfunctions", "get_status", crd.name), "GetStatus")
    ELSE Then(Called(c, "openfaasfunctions", "get_status", crd.name),
              LAMBDA c1 : replace_status(c1, status_arg))

\* a step that writes a status and, the write done, awaits the next change
write_status_and_await(c, crd, status_arg) ==
    Then(write_status(c, crd, status_arg),
         LAMBDA c1 : IF c1.ret = "error" THEN c1 ELSE Returned(c1, "await"))

check_resource_namespace(c, crd) ==
    IF crd.namespace # FunctionsNamespace
    THEN write_status_and_await(c, crd, "InvalidCRDNamespace")
    ELSE Returned(c, "none")

\* check_function_namespace comparing spec.namespace with Some(functions
\* namespace): an unset spec.namespace is rejected too
check_function_namespace_unset_rejected(c, crd) ==
    IF crd.spec.namespace # Some(FunctionsNamespace)
    THEN write_status_and_await(c, crd, "InvalidFunctionNamespace")
    ELSE Returned(c, "none")

\* the function namespace check that reports and lets the pass go on
check_function_namespace_goes_on(c, crd) ==
    IF crd.spec.namespace # None /\ crd.spec.namespace[1] # FunctionsNamespace
    THEN write_status(c, crd, "InvalidFunctionNamespace")
    ELSE Returned(c, "none")

check_function_namespace(c, crd) ==
    IF crd.spec.namespace # None /\ crd.spec.namespace[1] # FunctionsNamespace
    THEN write_status_and_await(c, crd, "InvalidFunctionNamespace")
    ELSE Returned(c, "none")

\* check_secrets stopping only when none of the named Secrets exists
check_secrets_any_found(c, crd) ==
    LET wanted == get_secrets_unique_vec(crd.spec)
        found_secret_names == SelectSeq(wanted, LAMBDA s : s \in secrets)
    IN  IF wanted # << >>
        THEN IF Failing(c) THEN Failed(Called(c, "secrets", "list", ""), "List")
             ELSE IF found_secret_names = << >>
             THEN Then(Called(c, "secrets", "list", ""),
                       LAMBDA c1 : write_status_and_await(c1, crd, "SecretsNotFound"))
             ELSE Returned(Called(c, "secrets", "list", ""), "none")
        ELSE Returned(c, "none")

\* the secrets check creating a placeholder for the first missing Secret
check_secrets_creates_missing(c, crd) ==
    LET wanted == get_secrets_unique_vec(crd.spec)
        not_found_secret_names == SelectSeq(wanted, LAMBDA s : s \notin secrets)
    IN  IF wanted # << >>
        THEN IF Failing(c) THEN Failed(Called(c, "secrets", "list", ""), "List")
             ELSE IF not_found_secret_names # << >>
             THEN Then(Called(Called(c, "secrets", "list", ""),
                              "secrets", "create", Head(not_found_secret_names)),
                       LAMBDA c1 : write_status_and_await(c1, crd, "SecretsNotFound"))
             ELSE Returned(Called(c, "secrets", "list", ""), "none")
        ELSE Returned(c, "none")

check_secrets(c, crd) ==
    LET wanted == get_secrets_unique_vec(crd.spec)
        not_found_secret_names == SelectSeq(wanted, LAMBDA s : s \notin secrets)
    IN  IF wanted # << >>
        THEN IF Failing(c) THEN Failed(Called(c, "secrets", "list", ""), "List")
             ELSE IF not_found_secret_names # << >>
             THEN Then(Called(c, "secrets", "list", ""),
                       LAMBDA c1 : write_status_and_await(c1, crd, "SecretsNotFound"))
             ELSE Returned(Called(c, "secrets", "list", ""), "none")
        ELSE Returned(c, "none")

\* the create or replace of the Deployment after which the pass goes on
apply_deployment_goes_on(c, action, name, object) ==
    IF action = "Create"
    THEN IF Failing(c) \/ name \in DOMAIN c.deps
         THEN Failed(Called(c, "deployments", "create", name), "Apply")
         ELSE Returned(
                  [Called(c, "deployments", "create", name) EXCEPT !.deps =
                      [n \in DOMAIN c.deps \cup {name} |->
                          IF n = name THEN object ELSE c.deps[n]]],
                  "none")
    ELSE IF Failing(c) \/ name \notin DOMAIN c.deps
         THEN Failed(Called(c, "deployments", "replace", name), "Replace")
         ELSE Returned(
                  [Called(c, "deployments", "replace", name) EXCEPT !.deps[name] =
                      [object EXCEPT !.ready = c.deps[name].ready]],
                  "none")

\* deployment_api.create / deployment_api.replace of the generated Deployment
apply_deployment(c, action, name, object) ==
    IF action = "Create"
    THEN IF Failing(c) \/ name \in DOMAIN c.deps
         THEN Failed(Called(c, "deployments", "create", name), "Apply")
         ELSE Returned(
                  [Called(c, "deployments", "create", name) EXCEPT !.deps =
                      [n \in DOMAIN c.deps \cup {name} |->
                          IF n = name THEN object ELSE c.deps[n]]],
                  "await")
    ELSE IF Failing(c) \/ name \notin DOMAIN c.deps
         THEN Failed(Called(c, "deployments", "replace", name), "Replace")
         ELSE Returned(
                  [Called(c, "deployments", "replace", name) EXCEPT !.deps[name] =
                      [object EXCEPT !.ready = c.deps[name].ready]],
                  "await")

\* create_deployment returning await_change after the status of a failed
\* projection is written
create_deployment_await_on_quantity(c, crd, action) ==
    LET generated == DeploymentTryFrom(crd)
        error_status == ErrorToStatus(generated.error)
    IN  Then(check_secrets(c, crd),
             LAMBDA c1 :
                 IF Stopped(c1) THEN c1
                 ELSE IF generated.ok
                 THEN apply_deployment(c1, action, generated.name, generated.object)
                 ELSE IF error_status # None
                 THEN write_status_and_await(c1, crd, error_status[1])
                 ELSE Failed(c1, "Generate"))

\* the result of Deployment::try_from noted in the context ("none": not
\* attempted, "ok", or the error)
Generated(c, generated) ==
    [c EXCEPT !.generate = IF generated.ok THEN "ok" ELSE generated.error]

\* the secrets check made for the Create action only
create_deployment_secrets_on_create_only(c, crd, action) ==
    LET generated == IF c.serialize_error THEN SerializeFailed
                     ELSE DeploymentTryFrom(crd)
        error_status == ErrorToStatus(generated.error)
    IN  Then(IF action = "Create" THEN check_secrets(c, crd) ELSE Returned(c, "none"),
             LAMBDA c1 :
                 IF Stopped(c1) THEN c1
                 ELSE Then(Generated(c1, generated),
                      LAMBDA c2 :
                          IF generated.ok
                          THEN apply_deployment(c2, action, generated.name,
                                                generated.object)
                          ELSE IF error_status # None
                          THEN Then(write_status(c2, crd, error_status[1]),
                                    LAMBDA c3 : IF c3.ret = "error" THEN c3
                                                ELSE Failed(c3, "Generate"))
                          ELSE Failed(c2, "Generate")))

\* OperatorInner::create_deployment; action is "Create" or "Replace"
create_deployment(c, crd, action) ==
    LET generated == IF c.serialize_error THEN SerializeFailed
                     ELSE DeploymentTryFrom(crd)
        error_status == ErrorToStatus(generated.error)
    IN  Then(check_secrets(c, crd),
             LAMBDA c1 :
                 IF Stopped(c1) THEN c1
                 ELSE Then(Generated(c1, generated),
                      LAMBDA c2 :
                          IF generated.ok
                          THEN apply_deployment(c2, action, generated.name,
                                                generated.object)
                          ELSE IF error_status # None
                          THEN Then(write_status(c2, crd, error_status[1]),
                                    LAMBDA c3 : IF c3.ret = "error" THEN c3
                                                ELSE Failed(c3, "Generate"))
                          ELSE Failed(c2, "Generate")))

\* check_existing_deployment without the readiness gate: an owned Deployment
\* is taken as ready whatever its status
check_existing_deployment_no_ready_gate(c, crd, crd_oref, deployment) ==
    LET owned == crd_oref \in deployment.orefs
        needs == deployment_needs_recreation(crd.spec, deployment)
    IN  IF ~owned
        THEN write_status_and_await(c, crd, "DeploymentAlreadyExists")
        ELSE IF update_strategy = "OneWay"
        THEN IF needs = "panic" THEN Returned(c, "panic")
             ELSE IF needs = "true" THEN create_deployment(c, crd, "Replace")
             ELSE Returned(c, "none")
        ELSE Returned(c, "none")

\* check_existing_deployment that writes DeploymentAlreadyExists and goes on
\* instead of returning
check_existing_deployment_foreign_goes_on(c, crd, crd_oref, deployment) ==
    LET owned == crd_oref \in deployment.orefs
        ready == deployment.ready \notin {"no_status", "no_ready_replicas"}
        needs == deployment_needs_recreation(crd.spec, deployment)
    IN  IF owned /\ ~ready
        THEN write_status_and_await(c, crd, "DeploymentNotReady")
        ELSE IF ~owned
        THEN write_status(c, crd, "DeploymentAlreadyExists")
        ELSE IF update_strategy = "OneWay"
        THEN IF needs = "panic" THEN Returned(c, "panic")
             ELSE IF needs = "true" THEN create_deployment(c, crd, "Replace")
             ELSE Returned(c, "none")
        ELSE Returned(c, "none")

\* the Strategic arm replacing a Deployment projected from another spec
check_existing_deployment_strategic_replaces(c, crd, crd_oref, deployment) ==
    LET owned == crd_oref \in deployment.orefs
        ready == deployment.ready \notin {"no_status", "no_ready_replicas"}
        needs == deployment_needs_recreation(crd.spec, deployment)
    IN  IF owned /\ ~ready
        THEN write_status_and_await(c, crd, "DeploymentNotReady")
        ELSE IF ~owned
        THEN write_status_and_await(c, crd, "DeploymentAlreadyExists")
        ELSE IF update_strategy = "OneWay"
        THEN IF needs = "panic" THEN Returned(c, "panic")
             ELSE IF needs = "true" THEN create_deployment(c, crd, "Replace")
             ELSE Returned(c, "none")
        ELSE IF deployment.annotation # to_meta_annotations(crd.spec)
        THEN create_deployment(c, crd, "Replace")
        ELSE Returned(c, "none")

check_existing_deployment(c, crd, crd_oref, deployment) ==
    LET owned == crd_oref \in deployment.orefs
        ready == deployment.ready \notin {"no_status", "no_ready_replicas"}
        needs == deployment_needs_recreation(crd.spec, deployment)
    IN  IF owned /\ ~ready
        THEN write_status_and_await(c, crd, "DeploymentNotReady")
        ELSE IF ~owned
        THEN write_status_and_await(c, crd, "DeploymentAlreadyExists")
        ELSE IF update_strategy = "OneWay"
        THEN IF needs = "panic" THEN Returned(c, "panic")
             ELSE IF needs = "true" THEN create_deployment(c, crd, "Replace")
             ELSE Returned(c, "none")
        ELSE Returned(c, "none")

\* the delete whose failure is not propagated
delete_object_failure_ignored(c, api, n) ==
    LET objects == IF api = "deployments" THEN c.deps ELSE c.svcs
        kept == [m \in DOMAIN objects \ {n} |-> objects[m]]
    IN  IF Failing(c) \/ n \notin DOMAIN objects
        THEN Called(c, api, "delete", n)
        ELSE IF api = "deployments"
        THEN [Called(c, api, "delete", n) EXCEPT !.deps = kept]
        ELSE [Called(c, api, "delete", n) EXCEPT !.svcs = kept]

\* api.delete(name) of a sweep
delete_object(c, api, n) ==
    LET objects == IF api = "deployments" THEN c.deps ELSE c.svcs
        kept == [m \in DOMAIN objects \ {n} |-> objects[m]]
    IN  IF Failing(c) \/ n \notin DOMAIN objects
        THEN Failed(Called(c, api, "delete", n), "Delete")
        ELSE IF api = "deployments"
        THEN [Called(c, api, "delete", n) EXCEPT !.deps = kept]
        ELSE [Called(c, api, "delete", n) EXCEPT !.svcs = kept]

\* the deletes of a sweep, in the order of the list
RECURSIVE DeleteEach(_, _, _)
DeleteEach(c, api, names) ==
    IF names = << >> \/ Stopped(c) THEN c
    ELSE Then(delete_object(c, api, Head(names)),
              LAMBDA c1 : DeleteEach(c1, api, Tail(names)))

Listed(objects) == SelectSeq(NameOrder, LAMBDA n : n \in DOMAIN objects)

\* delete_old_deployments selecting by name alone, the owner reference not
\* looked at
delete_old_deployments_by_name(c, crd, crd_oref) ==
    LET old == SelectSeq(Listed(c.deps), LAMBDA n : n # to_name(crd.spec))
    IN  IF Failing(c) THEN Failed(Called(c, "deployments", "list", ""), "List")
        ELSE Then(Called(c, "deployments", "list", ""),
                  LAMBDA c1 : DeleteEach(c1, "deployments", old))

\* delete_old_deployments without the comparison of the names: every owned
\* Deployment is deleted
delete_old_deployments_every_owned(c, crd, crd_oref) ==
    LET old == SelectSeq(Listed(c.deps), LAMBDA n : crd_oref \in c.deps[n].orefs)
    IN  IF Failing(c) THEN Failed(Called(c, "deployments", "list", ""), "List")
        ELSE Then(Called(c, "deployments", "list", ""),
                  LAMBDA c1 : DeleteEach(c1, "deployments", old))

delete_old_deployments(c, crd, crd_oref) ==
    LET old == SelectSeq(Listed(c.deps),
                         LAMBDA n : n # to_name(crd.spec) /\ crd_oref \in c.deps[n].orefs)
    IN  IF Failing(c) THEN Failed(Called(c, "deployments", "list", ""), "List")
        ELSE Then(Called(c, "deployments", "list", ""),
                  LAMBDA c1 : DeleteEach(c1, "deployments", old))

\* check_deployment creating the Deployment whatever get_opt returned
check_deployment_always_creates(c, crd) ==
    LET name == to_name(crd.spec)
        crd_oref == controller_owner_ref(crd)
        fetched == [Called(c, "deployments", "get_opt", name) EXCEPT !.dep_get =
                       IF name \in DOMAIN c.deps THEN "present" ELSE "absent"]
    IN  IF Failing(c) THEN Failed(Called(c, "deployments", "get_opt", name), "Get")
        ELSE IF crd_oref = None THEN Failed(fetched, "OwnerReference")
        ELSE Then(fetched,
                  LAMBDA c1 :
                      Then(create_deployment(c1, crd, "Create"),
                           LAMBDA c2 :
                               IF Stopped(c2) THEN c2
                               ELSE delete_old_deployments(c2, crd, crd_oref[1])))

check_deployment(c, crd) ==
    LET name == to_name(crd.spec)
        crd_oref == controller_owner_ref(crd)
        fetched == [Called(c, "deployments", "get_opt", name) EXCEPT !.dep_get =
                       IF name \in DOMAIN c.deps THEN "present" ELSE "absent"]
    IN  IF Failing(c) THEN Failed(Called(c, "deployments", "get_opt", name), "Get")
        ELSE IF crd_oref = None THEN Failed(fetched, "OwnerReference")
        ELSE Then(fetched,
                  LAMBDA c1 :
                      Then(IF name \in DOMAIN c1.deps
                           THEN check_existing_deployment(c1, crd, crd_oref[1],
                                                          c1.deps[name])
                           ELSE create_deployment(c1, crd, "Create"),
                           LAMBDA c2 :
                               IF Stopped(c2) THEN c2
                               ELSE delete_old_deployments(c2, crd, crd_oref[1])))

\* check_existing_service accepting any Service of the name as its own
check_existing_service_any_owner(c, crd, crd_oref, service) ==
    Returned(c, "none")

check_existing_service(c, crd, crd_oref, service) ==
    IF crd_oref \notin service.orefs
    THEN write_status_and_await(c, crd, "ServiceAlreadyExists")
    ELSE Returned(c, "none")

\* the Service create that ends the pass as the Deployment create does
create_service_awaits(c, crd) ==
    LET generated == IF c.serialize_error THEN SerializeFailed
                     ELSE ServiceTryFrom(crd)
        name == to_name(crd.spec)
    IN  IF ~generated.ok THEN Failed(c, "Generate")
        ELSE IF Failing(c) \/ name \in DOMAIN c.svcs
        THEN Failed(Called(c, "services", "create", name), "Apply")
        ELSE Returned(
                 [Called(c, "services", "create", name) EXCEPT !.svcs =
                     [n \in DOMAIN c.svcs \cup {name} |->
                         IF n = name THEN generated.object ELSE c.svcs[n]]],
                 "await")

create_service(c, crd) ==
    LET generated == IF c.serialize_error THEN SerializeFailed
                     ELSE ServiceTryFrom(crd)
        name == to_name(crd.spec)
    IN  IF ~generated.ok THEN Failed(c, "Generate")
        ELSE IF Failing(c) \/ name \in DOMAIN c.svcs
        THEN Failed(Called(c, "services", "create", name), "Apply")
        ELSE Returned(
                 [Called(c, "services", "create", name) EXCEPT !.svcs =
                     [n \in DOMAIN c.svcs \cup {name} |->
                         IF n = name THEN generated.object ELSE c.svcs[n]]],
                 "none")

\* delete_old_services listing the Services and deleting none
delete_old_services_none(c, crd, crd_oref) ==
    IF Failing(c) THEN Failed(Called(c, "services", "list", ""), "List")
    ELSE Called(c, "services", "list", "")

delete_old_services(c, crd, crd_oref) ==
    LET old == SelectSeq(Listed(c.svcs),
                         LAMBDA n : n # to_name(crd.spec) /\ crd_oref \in c.svcs[n].orefs)
    IN  IF Failing(c) THEN Failed(Called(c, "services", "list", ""), "List")
        ELSE Then(Called(c, "services", "list", ""),
                  LAMBDA c1 : DeleteEach(c1, "services", old))

check_service(c, crd) ==
    LET name == to_name(crd.spec)
        crd_oref == controller_owner_ref(crd)
    IN  IF Failing(c) THEN Failed(Called(c, "services", "get_opt", name), "Get")
        ELSE IF crd_oref = None
        THEN Failed(Called(c, "services", "get_opt", name), "OwnerReference")
        ELSE Then(Called(c, "services", "get_opt", name),
                  LAMBDA c1 :
                      Then(IF name \in DOMAIN c1.svcs
                           THEN check_existing_service(c1, crd, crd_oref[1],
                                                       c1.svcs[name])
                           ELSE create_service(c1, crd),
                           LAMBDA c2 :
                               IF Stopped(c2) THEN c2
                               ELSE delete_old_services(c2, crd, crd_oref[1])))

set_ready_status(c, crd) == write_status(c, crd, "Ok")

\* one step of apply: skipped once an earlier step has returned an action or
\* an error
Step(c, name, F(_)) ==
    IF Stopped(c) THEN c
    ELSE Then(Entered(c, name), LAMBDA c1 : F(c1))

\* apply with the Service subreconciler ahead of the Deployment subreconciler
apply_service_first(c, crd) ==
    Then(Step(c, "check_resource_namespace",
              LAMBDA x : check_resource_namespace(x, crd)),
    LAMBDA c1 : Then(Step(c1, "check_function_namespace",
              LAMBDA x : check_function_namespace(x, crd)),
    LAMBDA c2 : Then(Step(c2, "check_service",
              LAMBDA x : check_service(x, crd)),
    LAMBDA c3 : Then(Step(c3, "check_deployment",
              LAMBDA x : check_deployment(x, crd)),
    LAMBDA c4 : Then(Step(c4, "set_ready_status",
              LAMBDA x : set_ready_status(x, crd)),
    LAMBDA c5 : IF Stopped(c5) THEN c5 ELSE Returned(c5, "await"))))))

\* OperatorInner::apply: the steps in order, stopping at the first that
\* returns an action or an error
apply(c, crd) ==
    Then(Step(c, "check_resource_namespace",
              LAMBDA x : check_resource_namespace(x, crd)),
    LAMBDA c1 : Then(Step(c1, "check_function_namespace",
              LAMBDA x : check_function_namespace(x, crd)),
    LAMBDA c2 : Then(Step(c2, "check_deployment",
              LAMBDA x : check_deployment(x, crd)),
    LAMBDA c3 : Then(Step(c3, "check_service",
              LAMBDA x : check_service(x, crd)),
    LAMBDA c4 : Then(Step(c4, "set_ready_status",
              LAMBDA x : set_ready_status(x, crd)),
    LAMBDA c5 : IF Stopped(c5) THEN c5 ELSE Returned(c5, "await"))))))

\* OperatorInner::reconcile
reconcile(c, crd) ==
    IF crd.namespace = "" THEN Failed(c, "Namespace") ELSE apply(c, crd)

\* on_error: every Err becomes a requeue after 10 seconds
RequeueSeconds == 10

\* on_error answering an Err with await_change
on_error_await_change(c) == [kind |-> "await_change", seconds |-> 0]

on_error(c) == [kind |-> "requeue", seconds |-> RequeueSeconds]

await_change == [kind |-> "await_change", seconds |-> 0]

----------------------------------------------------------------------------
(* The state *)

Crd == [name |-> CrdName, namespace |-> crd_namespace, uid |-> Some(CrdUid),
        spec |-> spec]

\* the objects that carry the controller owner reference to the declaration
Owned(objects) == {n \in DOMAIN objects : CrdUid \in objects[n].orefs}

Foreign(objects) == DOMAIN objects \ Owned(objects)

\* a Deployment or Service somebody else put in the functions namespace
ForeignDeployment == [orefs |-> {}, ready |-> "ready_1", annotation |-> None]
ForeignService == [orefs |-> {}, annotation |-> None]

PreExisting == {S \in SUBSET Names : Cardinality(S) <= 1}

NoPass ==
    [ran |-> FALSE, ret |-> "none", error |-> "none", error_status |-> None,
     generate |-> "none", calls |-> << >>,
     steps |-> << >>, dep_get |-> "not_fetched", seen |-> None, fault |-> 0,
     action |-> await_change]

StatusReason == IF status = None THEN "none" ELSE status[1].reason

Init ==
    /\ update_strategy \in UpdateStrategy
    /\ deleted = FALSE
    /\ crd_namespace \in {FunctionsNamespace, OtherNamespace}
    \* the declaration as first applied; the other specs are reached by the
    \* changes of the spec below
    /\ spec \in [service : {"a"}, image : {"img1"},
                 namespace : {None, Some(OtherNamespace)},
                 secrets : {<< >>, <<"s1", "s2", "s1">>}, limits : {None}]
    /\ status = None
    \* what is in the functions namespace before the declaration: at most one
    \* Deployment and one Service of somebody else
    /\ \E S \in PreExisting : deployments = [n \in S |-> ForeignDeployment]
    /\ \E S \in PreExisting : services = [n \in S |-> ForeignService]
    /\ secrets = {}
    \* the watcher lists the declarations of the functions namespace only
    /\ queued = (crd_namespace = FunctionsNamespace)
    /\ requeue = FALSE
    /\ running = TRUE
    /\ last = NoPass
    /\ spec_changes = 0
    /\ renamed = FALSE
    /\ secrets_missed = FALSE
    \* the declaration has no constraints; nothing is asked of the command line
    /\ constraints = << >>
    /\ node_selector = None
    /\ namesapce = FunctionsNamespace
    /\ update_strategy_arg = update_strategy
    /\ args = << >>
    /\ cli = None
    /\ translated = {}
    /\ declarations = << >>

----------------------------------------------------------------------------
(* The operator *)

Pass(fault) == reconcile(Context(fault), Crd)

\* a write of the pass that the controller's watches deliver back as an event:
\* the declaration's status, or an owned Deployment or Service
Changed(c) ==
    \/ c.status # status
    \/ \E n \in Owned(deployments) \cup Owned(c.deps) :
          \/ n \notin DOMAIN deployments
          \/ n \notin DOMAIN c.deps
          \/ deployments[n] # c.deps[n]
    \/ \E n \in Owned(services) \cup Owned(c.svcs) :
          \/ n \notin DOMAIN services
          \/ n \notin DOMAIN c.svcs
          \/ services[n] # c.svcs[n]

\* the pass returned from check_secrets with the status SecretsNotFound
StoppedOnSecrets(c) ==
    /\ c.ret = "await"
    /\ c.calls # << >>
    /\ c.calls[Len(c.calls)][1] \in {"secrets", "openfaasfunctions"}
    /\ c.status = Some(StatusFrom("SecretsNotFound"))

\* the end of a pass: Controller::run takes the action the pass returned, or
\* on_error's for an Err; a panic unwinds through Operator::run
Finish(c) ==
    /\ deployments' = c.deps
    /\ services' = c.svcs
    /\ status' = c.status
    /\ last' = [ran |-> TRUE, ret |-> c.ret, error |-> c.error,
                error_status |-> c.error_status, generate |-> c.generate,
                calls |-> c.calls,
                steps |-> c.steps, dep_get |-> c.dep_get,
                seen |-> IF c.dep_get = "present"
                         THEN Some(deployments[to_name(spec)]) ELSE None,
                fault |-> c.fault,
                action |-> IF c.ret = "error" THEN on_error(c) ELSE await_change]
    /\ running' = (c.ret # "panic")
    /\ queued' = (c.ret # "panic" /\ Changed(c))
    /\ requeue' = (c.ret = "error")
    /\ secrets_missed' = (secrets_missed \/ StoppedOnSecrets(c))
    /\ UNCHANGED <<update_strategy, crd_namespace, spec, secrets, spec_changes,
                   renamed, deleted,
                   translation, declarations>>

Reconcile ==
    /\ running
    /\ queued
    /\ ~deleted
    /\ \E c \in {Pass(0)} : Finish(c)

ReconcileWithApiFailure ==
    /\ running
    /\ queued
    /\ ~deleted
    /\ \E fault \in 1..Len(Pass(0).calls) : \E c \in {Pass(fault)} : Finish(c)

\* the requeue timer of a failed pass fires
RequeueFires ==
    /\ running
    /\ requeue
    /\ queued' = TRUE
    /\ requeue' = FALSE
    /\ last' = NoPass
    /\ UNCHANGED <<update_strategy, crd_namespace, spec, status, deployments,
                   services, secrets, running, spec_changes, renamed,
                   secrets_missed, deleted,
                   translation, declarations>>

----------------------------------------------------------------------------
(* The cluster around the operator *)

\* the declaration is reconciled: status Ok, both children owned, queue drained
Reconciled ==
    /\ StatusReason = "Ok"
    /\ to_name(spec) \in Owned(deployments)
    /\ to_name(spec) \in Owned(services)
    /\ ~queued
    /\ ~requeue

\* a user changes the declaration's spec; the watch on the declarations of the
\* functions namespace enqueues its key
PatchSpec(new, is_rename) ==
    /\ ~deleted
    /\ spec_changes < MaxSpecChanges
    /\ new # spec
    /\ spec' = new
    /\ spec_changes' = spec_changes + 1
    /\ renamed' = (is_rename /\ Reconciled)
    /\ secrets_missed' = FALSE
    /\ queued' = (queued \/ (running /\ crd_namespace = FunctionsNamespace))
    /\ last' = NoPass
    /\ UNCHANGED <<update_strategy, crd_namespace, status, deployments, services,
                   secrets, requeue, running, deleted,
                   translation, declarations>>

SetService == \E n \in Names : PatchSpec([spec EXCEPT !.service = n], TRUE)

SetNamespace ==
    \E ns \in {None, Some(FunctionsNamespace), Some(OtherNamespace)} :
        PatchSpec([spec EXCEPT !.namespace = ns], FALSE)

SetSecrets == \E sl \in SecretLists : PatchSpec([spec EXCEPT !.secrets = sl], FALSE)

SetImage == \E i \in Images : PatchSpec([spec EXCEPT !.image = i], FALSE)

SetLimits == \E l \in LimitsValues : PatchSpec([spec EXCEPT !.limits = l], FALSE)

\* somebody creates a Secret the declaration names; Secrets are not watched
CreateSecret ==
    /\ \E s \in SeqToSet(spec.secrets) \ secrets : secrets' = secrets \cup {s}
    /\ last' = NoPass
    /\ UNCHANGED <<update_strategy, crd_namespace, spec, status, deployments,
                   services, queued, requeue, running, spec_changes, renamed,
                   secrets_missed, deleted,
                   translation, declarations>>

\* the cluster reports the readiness of an owned Deployment; the watch on owned
\* Deployments enqueues the owner's key
DeploymentStatusUpdate ==
    /\ \E n \in Owned(deployments) : \E r \in ReadyStates \ {deployments[n].ready} :
          deployments' = [deployments EXCEPT ![n].ready = r]
    /\ queued' = (queued \/ running)
    /\ last' = NoPass
    /\ UNCHANGED <<update_strategy, crd_namespace, spec, status, services, secrets,
                   requeue, running, spec_changes, renamed,
                   secrets_missed, deleted,
                   translation, declarations>>

\* a reconcile is re-triggered (the watcher re-lists the functions namespace)
Retrigger ==
    /\ running
    /\ ~deleted
    /\ crd_namespace = FunctionsNamespace
    /\ ~queued
    /\ queued' = TRUE
    /\ last' = NoPass
    /\ UNCHANGED <<update_strategy, crd_namespace, spec, status, deployments,
                   services, secrets, requeue, running, spec_changes, renamed,
                   secrets_missed, deleted,
                   translation, declarations>>

Next ==
    \/ Reconcile
    \/ ReconcileWithApiFailure
    \/ RequeueFires
    \/ SetService
    \/ SetNamespace
    \/ SetSecrets
    \/ SetImage
    \/ SetLimits
    \/ CreateSecret
    \/ DeploymentStatusUpdate
    \/ Retrigger

Spec == Init /\ [][Next]_vars

----------------------------------------------------------------------------
(* The deletion of the declaration *)

\* a user deletes the declaration: its status goes with it, and the watch on
\* the declarations of the functions namespace enqueues its key
DeleteDeclaration ==
    /\ ~deleted
    /\ deleted' = TRUE
    /\ status' = None
    /\ queued' = (queued \/ (running /\ crd_namespace = FunctionsNamespace))
    /\ last' = NoPass
    /\ UNCHANGED <<update_strategy, crd_namespace, spec, deployments, services,
                   secrets, requeue, running, spec_changes, renamed,
                   secrets_missed,
                   translation, declarations>>

\* the controller takes the key of a declaration that is no longer in its
\* store: reconcile is not called, no API call is issued
ReconcileObjectNotFound ==
    /\ running
    /\ deleted
    /\ queued
    /\ queued' = FALSE
    /\ last' = NoPass
    /\ UNCHANGED <<update_strategy, crd_namespace, spec, status, deployments,
                   services, secrets, requeue, running, spec_changes, renamed,
                   secrets_missed, deleted,
                   translation, declarations>>

\* the cluster's garbage collector removes a Deployment or a Service whose
\* controller owner is gone; the watch on owned children enqueues the owner's
\* key
GarbageCollect ==
    /\ deleted
    /\ \/ \E n \in Owned(deployments) :
             /\ deployments' = [m \in DOMAIN deployments \ {n} |-> deployments[m]]
             /\ services' = services
       \/ \E n \in Owned(services) :
             /\ services' = [m \in DOMAIN services \ {n} |-> services[m]]
             /\ deployments' = deployments
    /\ queued' = (queued \/ running)
    /\ last' = NoPass
    /\ UNCHANGED <<update_strategy, crd_namespace, spec, status, secrets, requeue,
                   running, spec_changes, renamed, secrets_missed, deleted,
                   translation, declarations>>

NextWithDeletion ==
    \/ Next
    \/ DeleteDeclaration
    \/ ReconcileObjectNotFound
    \/ GarbageCollect

SpecWithDeletion == Init /\ [][NextWithDeletion]_vars

----------------------------------------------------------------------------
(* A pass in which the serialization of the spec fails *)

PassWithSerializeError ==
    reconcile([Context(0) EXCEPT !.serialize_error = TRUE], Crd)

\* a pass that gets as far as projecting the Deployment, where
\* serde_json::to_string fails
ReconcileWithSerializeError ==
    /\ running
    /\ queued
    /\ ~deleted
    /\ \E c \in {PassWithSerializeError} :
          /\ c.generate = "Serialize"
          /\ Finish(c)

NextWithSerializeError ==
    \/ Next
    \/ ReconcileWithSerializeError

SpecWithSerializeError == Init /\ [][NextWithSerializeError]_vars

----------------------------------------------------------------------------
(* The translation layer: the pod node selector.  A constraint is a string, *)
(* modelled as the sequence of its characters.                              *)

MaxConstraints == 2

\* the constraint strings tried: "a==b", " a == b", "a=b", "a==b==c", "a==c",
\* "c==b", "a" and "a=="
ConstraintStrings ==
    {<<"a", "=", "=", "b">>,
     <<" ", "a", " ", "=", "=", " ", "b">>,
     <<"a", "=", "b">>,
     <<"a", "=", "=", "b", "=", "=", "c">>,
     <<"a", "=", "=", "c">>,
     <<"c", "=", "=", "b">>,
     <<"a">>,
     <<"a", "=", "=">>}

ConstraintLists ==
    UNION {[1..n -> ConstraintStrings] : n \in 0..MaxConstraints}

\* utils::remove_whitespace
remove_whitespace(s) == SelectSeq(s, LAMBDA ch : ch # " ")

\* where the first "==" of s starts (0: s has none)
FirstSeparator(s) ==
    LET at == {i \in 1..(Len(s) - 1) : s[i] = "=" /\ s[i + 1] = "="}
    IN  IF at = {} THEN 0 ELSE CHOOSE i \in at : \A j \in at : i <= j

\* str::split("=="): the pieces between the occurrences of "==", left to right
RECURSIVE split(_)
split(s) ==
    LET i == FirstSeparator(s)
    IN  IF i = 0 THEN <<s>>
        ELSE <<SubSeq(s, 1, i - 1)>> \o split(SubSeq(s, i + 2, Len(s)))

\* Itertools::unique: the first occurrence of each element, in order
RECURSIVE unique(_)
unique(seq) ==
    IF seq = << >> THEN << >>
    ELSE LET init == unique(SubSeq(seq, 1, Len(seq) - 1))
             x == seq[Len(seq)]
         IN  IF \E i \in 1..Len(init) : init[i] = x THEN init ELSE Append(init, x)

\* collect::<BTreeMap<_, _>>(): the pairs inserted in order, a later value of a
\* key replacing the earlier one
collect(pairs) ==
    [k \in {pairs[i][1] : i \in 1..Len(pairs)} |->
        LET at == {i \in 1..Len(pairs) : pairs[i][1] = k}
        IN  pairs[CHOOSE i \in at : \A j \in at : j <= i][2]]

\* OpenFaasFunctionSpec::to_node_selector on spec.constraints (unset: empty)
to_node_selector(constraints_vec) ==
    IF constraints_vec = << >> THEN None
    ELSE LET pieces == [i \in 1..Len(constraints_vec) |-> split(constraints_vec[i])]
             two == SelectSeq(pieces, LAMBDA v : Len(v) = 2)
             cleaned == [i \in 1..Len(two) |->
                            <<remove_whitespace(two[i][1]),
                              remove_whitespace(two[i][2])>>]
         IN  Some(collect(unique(cleaned)))

\* the state of the operator left aside while the translation layer is tried
OperatorIdle ==
    /\ update_strategy = "OneWay"
    /\ deleted = FALSE
    /\ crd_namespace = FunctionsNamespace
    /\ spec = [service |-> "a", image |-> "img1", namespace |-> None,
               secrets |-> << >>, limits |-> None]
    /\ status = None
    /\ deployments = << >>
    /\ services = << >>
    /\ secrets = {}
    /\ queued = FALSE
    /\ requeue = FALSE
    /\ running = FALSE
    /\ last = NoPass
    /\ spec_changes = 0
    /\ renamed = FALSE
    /\ secrets_missed = FALSE

operator == <<update_strategy, crd_namespace, spec, status, deployments, services,
              secrets, queued, requeue, running, last, spec_changes, renamed,
              secrets_missed, deleted, declarations>>

ToNodeSelector ==
    /\ "to_node_selector" \notin translated
    /\ node_selector' = to_node_selector(constraints)
    /\ translated' = translated \cup {"to_node_selector"}
    /\ UNCHANGED <<operator, constraints, namesapce, update_strategy_arg, args, cli>>

----------------------------------------------------------------------------
(* The command line of the operator's own Deployment *)

\* the namespaces tried: two ordinary names, and names that are also a
\* subcommand or an alias of one
NamespaceArgs == {"functions", "openfaas-fn", "default", "run", "o", "co"}

\* the words convert_case finds in the Debug name of a variant: a new word
\* starts at an upper-case letter that follows a lower-case one
Words(debug_str) ==
    IF debug_str = "OneWay" THEN <<"One", "Way">> ELSE <<debug_str>>

to_lowercase(word) ==
    IF word = "One" THEN "one"
    ELSE IF word = "Way" THEN "way"
    ELSE IF word = "Strategic" THEN "strategic"
    ELSE word

RECURSIVE join(_, _)
join(words, separator) ==
    IF words = << >> THEN ""
    ELSE IF Len(words) = 1 THEN words[1]
    ELSE words[1] \o separator \o join(Tail(words), separator)

\* Casing::to_case: the words in lower case, joined by the case's separator
to_case(debug_str, separator) ==
    LET words == Words(debug_str)
    IN  join([i \in 1..Len(words) |-> to_lowercase(words[i])], separator)

\* Display for UpdateStrategy in snake case
to_string_snake(strategy) == to_case(strategy, "_")

\* Display for UpdateStrategy: the Debug name in Case::Kebab
to_string(strategy) == to_case(strategy, "-")

\* Cli::operator_controller_run_args
operator_controller_run_args(namespace_arg, strategy) ==
    <<"operator", "controller", "--functions-namespace", namespace_arg,
      "--update-strategy", to_string(strategy), "run">>

\* the names derive(clap::ValueEnum) gives the variants of UpdateStrategy
ValueEnum == [name \in {"one-way", "strategic"} |->
                 IF name = "one-way" THEN "OneWay" ELSE "Strategic"]

\* the tokens of the model that start with a hyphen: clap does not take one as
\* the value of an option
Hyphenated == {"--functions-namespace", "-n", "--update-strategy", "-u"}

ParseError ==
    [ok |-> FALSE, command |-> "error", functions_namespace |-> "",
     update_strategy |-> ""]

\* OperatorCommands::Controller: its two options in any order, then the
\* subcommand, which takes the rest of the line
RECURSIVE parse_controller(_, _, _)
parse_controller(tokens, functions_namespace, strategy) ==
    IF tokens = << >> THEN ParseError
    ELSE IF Head(tokens) \in {"--functions-namespace", "-n"}
    THEN IF Len(tokens) < 2 \/ tokens[2] \in Hyphenated THEN ParseError
         ELSE parse_controller(Tail(Tail(tokens)), tokens[2], strategy)
    ELSE IF Head(tokens) \in {"--update-strategy", "-u"}
    THEN IF Len(tokens) < 2 \/ tokens[2] \notin DOMAIN ValueEnum THEN ParseError
         ELSE parse_controller(Tail(Tail(tokens)), functions_namespace,
                               ValueEnum[tokens[2]])
    ELSE IF Head(tokens) \in {"run", "r"}
    THEN IF Len(tokens) # 1 THEN ParseError
         ELSE [ok |-> TRUE, command |-> "Operator/Controller/Run",
               functions_namespace |-> functions_namespace,
               update_strategy |-> strategy]
    ELSE ParseError

\* Cli::parse_from on a line without the binary's name: Commands::Operator,
\* then OperatorCommands::Controller with the defaults of its options
parse_from(line) ==
    IF Len(line) >= 2 /\ line[1] \in {"operator", "o"}
                      /\ line[2] \in {"controller", "co"}
    THEN parse_controller(SubSeq(line, 3, Len(line)), "openfaas-fn", "OneWay")
    ELSE ParseError

OperatorControllerRunArgs ==
    /\ "operator_controller_run_args" \notin translated
    /\ args' = operator_controller_run_args(namesapce, update_strategy_arg)
    /\ translated' = translated \cup {"operator_controller_run_args"}
    /\ UNCHANGED <<operator, constraints, node_selector, namesapce,
                   update_strategy_arg, cli>>

ParseFrom ==
    /\ "operator_controller_run_args" \in translated
    /\ "parse_from" \notin translated
    /\ cli' = parse_from(args)
    /\ translated' = translated \cup {"parse_from"}
    /\ UNCHANGED <<operator, constraints, node_selector, namesapce,
                   update_strategy_arg, args>>

InitTranslation ==
    /\ OperatorIdle
    /\ constraints \in ConstraintLists
    /\ node_selector = None
    /\ namesapce \in NamespaceArgs
    /\ update_strategy_arg \in UpdateStrategy
    /\ args = << >>
    /\ cli = None
    /\ translated = {}
    /\ declarations = << >>

NextTranslation ==
    \/ ToNodeSelector
    \/ OperatorControllerRunArgs
    \/ ParseFrom

SpecTranslation == InitTranslation /\ [][NextTranslation]_vars

----------------------------------------------------------------------------
(* Two declarations with one service name.  The controller reconciles       *)
(* different declarations concurrently, so the API calls of their passes    *)
(* interleave: here every call of a pass is a step of its own.  Both        *)
(* declarations live in the functions namespace, share `spec` (no           *)
(* spec.namespace, no secrets, no limits: the namespace checks and the      *)
(* secrets check pass without a call) and no API call fails for a reason    *)
(* other than the state of the cluster.  The status is written in the step  *)
(* that decides it: only the passes of a declaration write its status and   *)
(* the controller runs one pass per declaration at a time.                  *)

Declarations == {"f1", "f2"}

Uids == [d \in Declarations |-> IF d = CrdName THEN CrdUid ELSE "uid-f2"]

CrdOf(d) == [name |-> d, namespace |-> FunctionsNamespace, uid |-> Some(Uids[d]),
             spec |-> spec]

\* the children the first declaration owns under the name it had before
OldName == "b"

OldDeployment == [orefs |-> {Uids[CrdName]}, ready |-> "ready_1",
                  annotation |-> to_meta_annotations([spec EXCEPT !.service = OldName])]

OldService == [orefs |-> {Uids[CrdName]},
               annotation |-> to_meta_annotations([spec EXCEPT !.service = OldName])]

NotReconciled == [pc |-> "idle", queued |-> TRUE, requeue |-> FALSE, status |-> None,
                  dep |-> None, svc |-> None, old |-> << >>,
                  ret |-> "none", error |-> "none", action |-> await_change]

InitTwoDeclarations ==
    /\ update_strategy \in UpdateStrategy
    /\ deleted = FALSE
    /\ crd_namespace = FunctionsNamespace
    /\ spec = [service |-> "a", image |-> "img1", namespace |-> None,
               secrets |-> << >>, limits |-> None]
    /\ status = None
    /\ \E S \in SUBSET {OldName} : deployments = [n \in S |-> OldDeployment]
    /\ \E S \in SUBSET {OldName} : services = [n \in S |-> OldService]
    /\ secrets = {}
    /\ queued = FALSE
    /\ requeue = FALSE
    /\ running = TRUE
    /\ last = NoPass
    /\ spec_changes = 0
    /\ renamed = FALSE
    /\ secrets_missed = FALSE
    /\ constraints = << >>
    /\ node_selector = None
    /\ namesapce = FunctionsNamespace
    /\ update_strategy_arg = "OneWay"
    /\ args = << >>
    /\ cli = None
    /\ translated = {}
    /\ declarations \in [Declarations -> {NotReconciled}]

\* the variables of the single declaration, left as they are
single == <<crd_namespace, spec, status, secrets, queued, requeue, last,
            spec_changes, renamed, secrets_missed, deleted, translation>>

\* the reconciler returns: the action goes to the controller, an error to
\* on_error
EndPass(d, written, ret, error) ==
    declarations' = [declarations EXCEPT
        ![d].pc = "idle",
        ![d].status = IF written = None THEN @ ELSE Some(StatusFrom(written[1])),
        ![d].ret = ret,
        ![d].error = error,
        ![d].action = IF ret = "error" THEN on_error(declarations[d]) ELSE await_change,
        ![d].requeue = (ret = "error")]

\* the pass starts: the namespace checks pass, check_deployment gets the
\* Deployment named spec.service
GetDeployment(d) ==
    LET name == to_name(CrdOf(d).spec)
    IN  /\ running
        /\ declarations[d].pc = "idle"
        /\ declarations[d].queued
        /\ declarations' = [declarations EXCEPT
               ![d].pc = "deployment_fetched",
               ![d].queued = FALSE,
               ![d].dep = IF name \in DOMAIN deployments
                          THEN Some(deployments[name]) ELSE None,
               ![d].svc = None,
               ![d].ret = "none",
               ![d].error = "none"]
        /\ UNCHANGED <<update_strategy, running, deployments, services, single>>

\* check_existing_deployment on the Deployment the get returned
ExistingDeployment(d) ==
    LET deployment == declarations[d].dep[1]
        owned == controller_owner_ref(CrdOf(d))[1] \in deployment.orefs
        ready == deployment.ready \notin {"no_status", "no_ready_replicas"}
    IN  /\ running
        /\ declarations[d].pc = "deployment_fetched"
        /\ declarations[d].dep # None
        /\ IF owned /\ ~ready
           THEN EndPass(d, Some("DeploymentNotReady"), "await", "none")
           ELSE IF ~owned
           THEN EndPass(d, Some("DeploymentAlreadyExists"), "await", "none")
           ELSE IF update_strategy = "OneWay"
           THEN EndPass(d, None, deployment_needs_recreation(spec, deployment), "none")
           ELSE declarations' = [declarations EXCEPT ![d].pc = "deployment_checked"]
        /\ running' = (owned /\ ready /\ update_strategy = "OneWay" =>
                           deployment_needs_recreation(spec, deployment) # Unimplemented)
        /\ UNCHANGED <<update_strategy, deployments, services, single>>

\* the create of an absent Deployment overwriting whatever has the name
CreateDeployment_overwrites(d) ==
    LET generated == DeploymentTryFrom(CrdOf(d))
    IN  /\ running
        /\ declarations[d].pc = "deployment_fetched"
        /\ declarations[d].dep = None
        /\ generated.ok
        /\ deployments' = [n \in DOMAIN deployments \cup {generated.name} |->
                              IF n = generated.name THEN generated.object
                              ELSE deployments[n]]
        /\ EndPass(d, None, "await", "none")
        /\ UNCHANGED <<update_strategy, running, services, single>>

\* create_deployment where the get returned nothing: the create fails when a
\* Deployment of the name has appeared since
CreateDeployment(d) ==
    LET generated == DeploymentTryFrom(CrdOf(d))
    IN  /\ running
        /\ declarations[d].pc = "deployment_fetched"
        /\ declarations[d].dep = None
        /\ generated.ok
        /\ IF generated.name \in DOMAIN deployments
           THEN /\ EndPass(d, None, "error", "Apply")
                /\ UNCHANGED deployments
           ELSE /\ deployments' = [n \in DOMAIN deployments \cup {generated.name} |->
                                      IF n = generated.name THEN generated.object
                                      ELSE deployments[n]]
                /\ EndPass(d, None, "await", "none")
        /\ UNCHANGED <<update_strategy, running, services, single>>

\* the owned children of another name in what a list returns
OldOf(d, objects) ==
    SelectSeq(Listed(objects),
              LAMBDA n : /\ n # to_name(CrdOf(d).spec)
                         /\ controller_owner_ref(CrdOf(d))[1] \in objects[n].orefs)

\* delete_old_deployments: the list
ListDeployments(d) ==
    /\ running
    /\ declarations[d].pc = "deployment_checked"
    /\ declarations' = [declarations EXCEPT
           ![d].old = OldOf(d, deployments),
           ![d].pc = IF OldOf(d, deployments) = << >> THEN "service_pending"
                     ELSE "deployments_listed"]
    /\ UNCHANGED <<update_strategy, running, deployments, services, single>>

\* delete_old_deployments: one delete of the loop
DeleteDeployment(d) ==
    LET n == Head(declarations[d].old)
    IN  /\ running
        /\ declarations[d].pc = "deployments_listed"
        /\ IF n \notin DOMAIN deployments
           THEN /\ EndPass(d, None, "error", "Delete")
                /\ UNCHANGED deployments
           ELSE /\ deployments' = [m \in DOMAIN deployments \ {n} |-> deployments[m]]
                /\ declarations' = [declarations EXCEPT
                       ![d].old = Tail(@),
                       ![d].pc = IF Tail(declarations[d].old) = << >>
                                 THEN "service_pending" ELSE @]
        /\ UNCHANGED <<update_strategy, running, services, single>>

\* check_service gets the Service named spec.service
GetService(d) ==
    LET name == to_name(CrdOf(d).spec)
    IN  /\ running
        /\ declarations[d].pc = "service_pending"
        /\ declarations' = [declarations EXCEPT
               ![d].pc = "service_fetched",
               ![d].svc = IF name \in DOMAIN services
                          THEN Some(services[name]) ELSE None]
        /\ UNCHANGED <<update_strategy, running, deployments, services, single>>

\* check_existing_service on the Service the get returned
ExistingService(d) ==
    /\ running
    /\ declarations[d].pc = "service_fetched"
    /\ declarations[d].svc # None
    /\ IF controller_owner_ref(CrdOf(d))[1] \notin declarations[d].svc[1].orefs
       THEN EndPass(d, Some("ServiceAlreadyExists"), "await", "none")
       ELSE declarations' = [declarations EXCEPT ![d].pc = "service_checked"]
    /\ UNCHANGED <<update_strategy, running, deployments, services, single>>

\* create_service where the get returned nothing; the pass goes on
CreateService(d) ==
    LET generated == ServiceTryFrom(CrdOf(d))
    IN  /\ running
        /\ declarations[d].pc = "service_fetched"
        /\ declarations[d].svc = None
        /\ generated.ok
        /\ IF generated.name \in DOMAIN services
           THEN /\ EndPass(d, None, "error", "Apply")
                /\ UNCHANGED services
           ELSE /\ services' = [n \in DOMAIN services \cup {generated.name} |->
                                   IF n = generated.name THEN generated.object
                                   ELSE services[n]]
                /\ declarations' = [declarations EXCEPT ![d].pc = "service_checked"]
        /\ UNCHANGED <<update_strategy, running, deployments, single>>

\* delete_old_services: the list
ListServices(d) ==
    /\ running
    /\ declarations[d].pc = "service_checked"
    /\ declarations' = [declarations EXCEPT
           ![d].old = OldOf(d, services),
           ![d].pc = IF OldOf(d, services) = << >> THEN "ready_pending"
                     ELSE "services_listed"]
    /\ UNCHANGED <<update_strategy, running, deployments, services, single>>

\* delete_old_services: one delete of the loop
DeleteService(d) ==
    LET n == Head(declarations[d].old)
    IN  /\ running
        /\ declarations[d].pc = "services_listed"
        /\ IF n \notin DOMAIN services
           THEN /\ EndPass(d, None, "error", "Delete")
                /\ UNCHANGED services
           ELSE /\ services' = [m \in DOMAIN services \ {n} |-> services[m]]
                /\ declarations' = [declarations EXCEPT
                       ![d].old = Tail(@),
                       ![d].pc = IF Tail(declarations[d].old) = << >>
                                 THEN "ready_pending" ELSE @]
        /\ UNCHANGED <<update_strategy, running, deployments, single>>

\* set_ready_status, then apply returns await_change
SetReadyStatus(d) ==
    /\ running
    /\ declarations[d].pc = "ready_pending"
    /\ EndPass(d, Some("Ok"), "await", "none")
    /\ UNCHANGED <<update_strategy, running, deployments, services, single>>

\* the 10 s requeue of on_error fires
RequeueFiresFor(d) ==
    /\ running
    /\ declarations[d].requeue
    /\ declarations' = [declarations EXCEPT ![d].requeue = FALSE, ![d].queued = TRUE]
    /\ UNCHANGED <<update_strategy, running, deployments, services, single>>

\* a watch event on the declaration or on a child it owns enqueues its key
Enqueue(d) ==
    /\ running
    /\ ~declarations[d].queued
    /\ declarations' = [declarations EXCEPT ![d].queued = TRUE]
    /\ UNCHANGED <<update_strategy, running, deployments, services, single>>

\* the Deployment controller reports a ready replica
ReplicaReady ==
    /\ \E n \in DOMAIN deployments :
          /\ deployments[n].ready = "no_status"
          /\ deployments' = [deployments EXCEPT ![n].ready = "ready_1"]
    /\ UNCHANGED <<update_strategy, running, services, single, declarations>>

NextTwoDeclarations ==
    \/ \E d \in Declarations : GetDeployment(d)
    \/ \E d \in Declarations : ExistingDeployment(d)
    \/ \E d \in Declarations : CreateDeployment(d)
    \/ \E d \in Declarations : ListDeployments(d)
    \/ \E d \in Declarations : DeleteDeployment(d)
    \/ \E d \in Declarations : GetService(d)
    \/ \E d \in Declarations : ExistingService(d)
    \/ \E d \in Declarations : CreateService(d)
    \/ \E d \in Declarations : ListServices(d)
    \/ \E d \in Declarations : DeleteService(d)
    \/ \E d \in Declarations : SetReadyStatus(d)
    \/ \E d \in Declarations : RequeueFiresFor(d)
    \/ \E d \in Declarations : Enqueue(d)
    \/ ReplicaReady

SpecTwoDeclarations == InitTwoDeclarations /\ [][NextTwoDeclarations]_vars

----------------------------------------------------------------------------
(* What the pass that has just ended did *)

PassEnded == last.ran

IssuedCalls == {last.calls[i] : i \in 1..Len(last.calls)}

Mutations == {"create", "replace", "delete"}

\* the create, replace and delete calls of the pass on Deployments and Services
ChildMutations == {call \in IssuedCalls : call[1] \in {"deployments", "services"}
                                          /\ call[2] \in Mutations}

StatusWrites == {call[3] : call \in {k \in IssuedCalls : k[2] = "replace_status"}}

\* the pass went through every step of apply, set_ready_status included
CompletedPass ==
    /\ PassEnded
    /\ last.ret = "await"
    /\ \E i \in 1..Len(last.steps) : last.steps[i] = "set_ready_status"

\* exactly one owned Deployment and one owned Service, both named spec.service
NameBinding ==
    /\ Owned(deployments) = {to_name(spec)}
    /\ Owned(services) = {to_name(spec)}

\* nothing is queued and no requeue is pending
Settled == ~queued /\ ~requeue

----------------------------------------------------------------------------
(* C1: a reconcile pass never creates, replaces or deletes a Deployment or  *)
(* a Service that lacks the controller owner reference to the declaration:  *)
(* every such object is the same after the pass as before it, and no        *)
(* mutating call of the pass names one.                                     *)

C1_ForeignObjectsUntouched ==
    [][ last'.ran =>
          /\ \A n \in Foreign(deployments) :
                /\ n \in DOMAIN deployments'
                /\ deployments'[n] = deployments[n]
          /\ \A n \in Foreign(services) :
                /\ n \in DOMAIN services'
                /\ services'[n] = services[n]
          /\ \A i \in 1..Len(last'.calls) :
                LET call == last'.calls[i]
                IN  call[2] \in Mutations =>
                      /\ call[1] = "deployments" => call[3] \notin Foreign(deployments)
                      /\ call[1] = "services" => call[3] \notin Foreign(services)
      ]_vars

\* a pass ran both sweeps while a foreign Deployment and a foreign Service
\* with another name than spec.service were listed
C1_Witness ==
    /\ PassEnded
    /\ <<"deployments", "list", "">> \in IssuedCalls
    /\ <<"services", "list", "">> \in IssuedCalls
    /\ Foreign(deployments) \ {to_name(spec)} # {}
    /\ Foreign(services) \ {to_name(spec)} # {}

----------------------------------------------------------------------------
(* C2: at the end of every reconcile pass that leaves the status Ok there   *)
(* is exactly one Deployment and one Service with the owner reference, and  *)
(* both are named spec.service.                                             *)

\* as stated: every pass that ends with the status Ok
C2_EveryPassLeavingOk == (PassEnded /\ StatusReason = "Ok") => NameBinding

\* for the passes that run to the end of apply
C2_CompletedPassBindsName == CompletedPass => (StatusReason = "Ok" /\ NameBinding)

\* a complete pass after a rename: the old name's Deployment was swept
C2_Witness ==
    /\ CompletedPass
    /\ to_name(spec) = "b"
    /\ <<"deployments", "delete", "a">> \in IssuedCalls

----------------------------------------------------------------------------
(* C3: the status is set to Ok only by a pass that observed the owned       *)
(* Deployment with readyReplicas > 0; a pass that observes the owned        *)
(* Deployment with no status, no readyReplicas or readyReplicas = 0, and    *)
(* returns its action, leaves the status DeploymentNotReady and does not    *)
(* write Ok.                                                                *)

ObservedOwned == last.seen # None /\ CrdUid \in last.seen[1].orefs

C3_OkRequiresReadyReplicas ==
    /\ (PassEnded /\ "Ok" \in StatusWrites) =>
          (ObservedOwned /\ last.seen[1].ready = "ready_1")
    /\ (PassEnded /\ last.ret = "await" /\ ObservedOwned
          /\ last.seen[1].ready \in {"no_status", "no_ready_replicas", "ready_0"}) =>
          (StatusReason = "DeploymentNotReady" /\ "Ok" \notin StatusWrites)

----------------------------------------------------------------------------
(* C4: after spec.service of a reconciled declaration (status Ok) is        *)
(* changed from A to B and the queue has drained, no owned Deployment or    *)
(* Service is named A and an owned Deployment and an owned Service named B  *)
(* exist.                                                                   *)

Converged ==
    /\ \A n \in Names \ {to_name(spec)} :
          n \notin Owned(deployments) /\ n \notin Owned(services)
    /\ to_name(spec) \in Owned(deployments)
    /\ to_name(spec) \in Owned(services)

----------------------------------------------------------------------------
(* C5: renaming spec.service from A to B takes the owned Deployments        *)
(* through {A}, {A,B}, {B}: the pass that creates B deletes nothing and     *)
(* awaits, and A is deleted by the pass the next event triggers.            *)

CreatedDeployment(pass) ==
    \E i \in 1..Len(pass.calls) :
        pass.calls[i][1] = "deployments" /\ pass.calls[i][2] = "create"

DeletedDeployment(pass) ==
    \E i \in 1..Len(pass.calls) :
        pass.calls[i][1] = "deployments" /\ pass.calls[i][2] = "delete"

\* as stated: the pass that follows the creating pass, no call of it failing,
\* leaves the new name's Deployment as the only owned one
C5_SweepByNextPass ==
    [][ /\ (last'.ran /\ CreatedDeployment(last')) =>
              (~DeletedDeployment(last') /\ last'.ret \in {"await", "error"}
               /\ Owned(deployments) \subseteq Owned(deployments'))
        /\ (last.ran /\ CreatedDeployment(last) /\ last.ret = "await"
              /\ last'.ran /\ last'.ret = "await") =>
              Owned(deployments') = {to_name(spec')}
      ]_vars

\* a pass that creates a Deployment deletes none and awaits; a pass deletes
\* owned Deployments only after it observed the Deployment named spec.service
\* owned and with status.readyReplicas set, and then it deletes only other
\* names
C5_SweepOnlyAfterNewObservedReady ==
    [][ last'.ran =>
          /\ CreatedDeployment(last') =>
                (~DeletedDeployment(last') /\ last'.ret \in {"await", "error"}
                 /\ Owned(deployments) \subseteq Owned(deployments'))
          /\ DeletedDeployment(last') =>
                /\ last'.seen # None
                /\ CrdUid \in last'.seen[1].orefs
                /\ last'.seen[1].ready \in {"ready_0", "ready_1"}
                /\ to_name(spec) \in Owned(deployments')
          /\ Owned(deployments') \subseteq Owned(deployments) \cup {to_name(spec)}
      ]_vars

\* the pass that completes a rename: it deleted A and B is the only owned
\* Deployment
C5_Witness ==
    /\ PassEnded
    /\ renamed
    /\ <<"deployments", "delete", "a">> \in IssuedCalls
    /\ Owned(deployments) = {"b"}

----------------------------------------------------------------------------
(* C6: for a declaration whose metadata.namespace is not the functions      *)
(* namespace no Deployment and no Service is ever created, and its status   *)
(* becomes and stays InvalidCRDNamespace.                                   *)

C6_WrongNamespaceGetsStatus ==
    crd_namespace # FunctionsNamespace =>
        /\ Owned(deployments) = {}
        /\ Owned(services) = {}
        /\ Settled => StatusReason = "InvalidCRDNamespace"

----------------------------------------------------------------------------
(* C7: a pass on a declaration whose spec.namespace is set and is not the   *)
(* functions namespace creates, replaces and deletes no Deployment and no   *)
(* Service, writes no status but InvalidFunctionNamespace, and, unless an   *)
(* API call fails, leaves that status and returns await_change; a pass on   *)
(* a declaration without spec.namespace goes on to the Deployment step.     *)

WrongFunctionNamespace ==
    spec.namespace # None /\ spec.namespace[1] # FunctionsNamespace

EnteredStep(step) == \E i \in 1..Len(last.steps) : last.steps[i] = step

C7_WrongFunctionNamespaceStops ==
    PassEnded =>
        /\ WrongFunctionNamespace =>
              /\ ChildMutations = {}
              /\ StatusWrites \subseteq {"InvalidFunctionNamespace"}
              /\ ~EnteredStep("check_deployment")
              /\ last.ret \in {"await", "error"}
              /\ last.ret = "await" =>
                    /\ StatusReason = "InvalidFunctionNamespace"
                    /\ last.action = await_change
        /\ spec.namespace = None =>
              /\ EnteredStep("check_deployment")
              /\ "InvalidFunctionNamespace" \notin StatusWrites

\* the declaration already had its children when spec.namespace was set to
\* another namespace; the pass wrote the status and touched neither child
C7_Witness ==
    /\ PassEnded
    /\ WrongFunctionNamespace
    /\ "InvalidFunctionNamespace" \in StatusWrites
    /\ Owned(deployments) # {}
    /\ Owned(services) # {}

----------------------------------------------------------------------------
(* C8: a pass that finds no Deployment named spec.service while a name of   *)
(* spec.secrets has no Secret in the functions namespace creates no         *)
(* Deployment and no Service, writes no status but SecretsNotFound, and,    *)
(* unless an API call fails, leaves that status and returns await_change.   *)

MissingSecrets == SeqToSet(get_secrets_unique_vec(spec)) \ secrets

C8_MissingSecretsBlockCreation ==
    (PassEnded /\ last.dep_get = "absent" /\ MissingSecrets # {}) =>
        /\ ChildMutations = {}
        /\ StatusWrites \subseteq {"SecretsNotFound"}
        /\ ~EnteredStep("check_service")
        /\ last.ret \in {"await", "error"}
        /\ last.ret = "await" =>
              /\ StatusReason = "SecretsNotFound"
              /\ last.action = await_change

\* one of the two named Secrets exists, the other does not
C8_Witness ==
    /\ PassEnded
    /\ last.dep_get = "absent"
    /\ MissingSecrets # {}
    /\ secrets # {}
    /\ "SecretsNotFound" \in StatusWrites

----------------------------------------------------------------------------
(* C9: a declaration that was stopped with SecretsNotFound has the status   *)
(* Ok once every Secret it names exists, its Deployment reports a ready     *)
(* replica, no foreign Service has its name, and every reconcile triggered  *)
(* since has run.                                                           *)

C9_RecoversFromSecretsNotFound ==
    (/\ secrets_missed
     /\ MissingSecrets = {}
     /\ to_name(spec) \in Owned(deployments)
     /\ deployments[to_name(spec)].ready = "ready_1"
     /\ to_name(spec) \notin Foreign(services)
     /\ Settled) => StatusReason = "Ok"

----------------------------------------------------------------------------
(* C10: a declaration in the functions namespace with a valid spec, no      *)
(* secrets and no name collision has the status Ok, an owned Deployment and *)
(* an owned Service named spec.service, once its Deployment reports a ready *)
(* replica and every reconcile triggered since has run.                     *)

ValidSpec ==
    /\ ~WrongFunctionNamespace
    /\ try_to_limits(spec) = "none"

C10_HappyPathReachesOk ==
    (/\ crd_namespace = FunctionsNamespace
     /\ ValidSpec
     /\ spec.secrets = << >>
     /\ to_name(spec) \notin Foreign(deployments) \cup Foreign(services)
     /\ to_name(spec) \in DOMAIN deployments
     /\ deployments[to_name(spec)].ready = "ready_1"
     /\ Settled) =>
        /\ StatusReason = "Ok"
        /\ to_name(spec) \in Owned(deployments)
        /\ to_name(spec) \in Owned(services)

----------------------------------------------------------------------------
(* C11: after a change of the declaration's spec, once every triggered      *)
(* reconcile has run, the owned Deployment named spec.service carries the   *)
(* projection of the current spec, whether or not the Deployment applied    *)
(* before became ready.                                                     *)

\* the last-applied annotation the Deployment would carry if it were
\* projected from the current spec
CarriesCurrentSpec(deployment) == deployment.annotation = to_meta_annotations(spec)

C11_DeploymentFollowsSpec ==
    (/\ spec_changes > 0
     /\ crd_namespace = FunctionsNamespace
     /\ ValidSpec
     /\ MissingSecrets = {}
     /\ to_name(spec) \in Owned(deployments)
     /\ Settled) => CarriesCurrentSpec(deployments[to_name(spec)])

----------------------------------------------------------------------------
(* C12: replace_status issues no write when the persisted reason is the     *)
(* target reason, so no pass writes the reason the status already has; and  *)
(* a pass run again in the state left by a pass that returned await and     *)
(* changed no Deployment or Service writes no status.                       *)

ReplaceStatusCalls(calls) ==
    {i \in 1..Len(calls) : calls[i][2] = "replace_status"}

C12_NoRedundantStatusWrite ==
    [][ last'.ran =>
          /\ \A i \in ReplaceStatusCalls(last'.calls) :
                last'.calls[i][3] # StatusReason
          /\ Cardinality(ReplaceStatusCalls(last'.calls)) <= 1
          /\ (last.ran /\ last.ret = "await" /\ ChildMutations = {}) =>
                ReplaceStatusCalls(last'.calls) = {}
      ]_vars

\* a pass that read the status and found the target reason persisted: the
\* second of two passes, right after the one that wrote it
C12_Witness ==
    /\ PassEnded
    /\ last.ret = "await"
    /\ StatusWrites = {}
    /\ \E call \in IssuedCalls : call[2] = "get_status"
    /\ ~queued

----------------------------------------------------------------------------
(* C13: the pass that detects a condition with a status reason other than   *)
(* Ok writes that reason and ends with await_change, neither an error nor   *)
(* a timed requeue.                                                         *)

AwaitReasons ==
    {"InvalidFunctionNamespace", "DeploymentAlreadyExists", "DeploymentNotReady",
     "ServiceAlreadyExists", "SecretsNotFound"}

QuantityReasons == {"CPUQuantity", "MemoryQuantity"}

----------------------------------------------------------------------------
(* C14: a pass that returns without error returns await_change, never a     *)
(* timed requeue; a pass one of whose API calls fails ends in an error, and *)
(* every pass that ends in an error is requeued after exactly 10 seconds.   *)

C14_ReturnSemantics ==
    PassEnded =>
        /\ last.ret \in {"await", "error", "panic"}
        /\ last.ret = "await" => (last.action = await_change /\ ~requeue)
        /\ last.ret = "error" =>
              /\ last.action = [kind |-> "requeue", seconds |-> 10]
              /\ requeue
        /\ last.fault # 0 => last.ret = "error"
        /\ (last.fault = 0 /\ last.ret = "error") => last.error = "Generate"

\* a delete of the sweep failed and the pass is requeued
C14_Witness ==
    /\ PassEnded
    /\ last.fault \in 1..Len(last.calls)
    /\ last.calls[last.fault][2] = "delete"
    /\ last.ret = "error"
    /\ last.action.kind = "requeue"
    /\ requeue

----------------------------------------------------------------------------
(* C15: a pass, none of whose API calls fails, that finds the Deployment    *)
(* named spec.service owned and ready while a cpu or memory quantity of the *)
(* spec does not parse issues no create, replace or delete on a Deployment  *)
(* and leaves the status CPUQuantity or MemoryQuantity.                     *)

DeploymentMutations == {call \in ChildMutations : call[1] = "deployments"}

C15_InvalidQuantityReported ==
    (/\ PassEnded
     /\ last.fault = 0
     /\ ObservedOwned
     /\ last.seen[1].ready = "ready_1"
     /\ try_to_limits(spec) # "none") =>
        /\ DeploymentMutations = {}
        /\ StatusReason = ErrorToStatus(try_to_limits(spec))[1]

----------------------------------------------------------------------------
(* C16: once the limits of a declaration with an owned ready Deployment are *)
(* patched to a valid quantity and every triggered reconcile has run, the   *)
(* Deployment has been replaced, so that its last-applied annotation is the *)
(* current spec, and the status is Ok.                                      *)

C16_ValidQuantityIsApplied ==
    (/\ spec_changes > 0
     /\ spec.limits # None
     /\ crd_namespace = FunctionsNamespace
     /\ ValidSpec
     /\ MissingSecrets = {}
     /\ to_name(spec) \in Owned(deployments)
     /\ deployments[to_name(spec)].ready = "ready_1"
     /\ to_name(spec) \notin Foreign(services)
     /\ Settled) =>
        /\ CarriesCurrentSpec(deployments[to_name(spec)])
        /\ StatusReason = "Ok"

----------------------------------------------------------------------------
(* C17: under the OneWay strategy, at the end of every pass that leaves the *)
(* status Ok, the last-applied annotation of the owned Deployment named     *)
(* spec.service is the JSON of the current spec; and every Deployment a     *)
(* pass creates or replaces carries the owner reference and the annotation  *)
(* with the JSON of the spec it was projected from.                         *)

AppliedDeployments ==
    {call[3] : call \in {k \in DeploymentMutations : k[2] \in {"create", "replace"}}}

----------------------------------------------------------------------------
(* C18: deployment_needs_recreation always returns a boolean: true when the *)
(* Deployment has no last-applied annotation, and otherwise true exactly    *)
(* when the current spec differs from the spec of the annotation.  Stated   *)
(* for the call a OneWay pass makes on the owned, ready Deployment it       *)
(* fetched.                                                                 *)

C18_DriftDetectorReturnsBoolean ==
    (/\ PassEnded
     /\ update_strategy = "OneWay"
     /\ ObservedOwned
     /\ last.seen[1].ready \in {"ready_0", "ready_1"}) =>
        LET deployment == last.seen[1]
            needs == deployment_needs_recreation(spec, deployment)
        IN  /\ needs \in {"true", "false"}
            /\ (needs = "true") <=>
                  \/ deployment.annotation = None
                  \/ deployment.annotation[1] # ToJson(spec)
            /\ last.ret # "panic"

----------------------------------------------------------------------------
(* C19: a pass whose write of the status fails ends in an error that        *)
(* carries the intended reason, issues no call after the failed write and   *)
(* is requeued; the pass run again in the state it left reads the persisted *)
(* status first and writes the intended reason once.                        *)

FailedStatusWrite ==
    /\ PassEnded
    /\ last.fault \in 1..Len(last.calls)
    /\ last.calls[last.fault][2] = "replace_status"

C19_StatusWriteFailureAndRetry ==
    FailedStatusWrite =>
        LET intended == last.calls[last.fault][3]
            retry == Pass(0)
            writes == ReplaceStatusCalls(retry.calls)
        IN  /\ last.ret = "error"
            /\ last.error = "SetStatus"
            /\ last.error_status = Some(intended)
            /\ last.fault = Len(last.calls)
            /\ StatusReason # intended
            /\ requeue
            /\ Cardinality(writes) = 1
            /\ \A i \in writes :
                  /\ retry.calls[i][3] = intended
                  /\ i > 1
                  /\ retry.calls[i - 1][2] = "get_status"
            /\ retry.status = Some(StatusFrom(intended))

\* the write of Ok failed
C19_Witness ==
    /\ FailedStatusWrite
    /\ last.error_status = Some("Ok")
    /\ requeue

----------------------------------------------------------------------------
(* C20: a pass run again in the state the previous pass left, with or       *)
(* without a failing call, creates no Deployment or Service that exists,    *)
(* creates none where the previous pass created one, fails a create only    *)
(* on the failing call, deletes no child of the current name, keeps the     *)
(* owned children of the current name, and writes no status reason that is  *)
(* already persisted.                                                       *)

\* the calls of the pass with the verb on the api that did not fail
Succeeded(pass, api, verb) ==
    {i \in 1..Len(pass.calls) :
        /\ pass.calls[i][1] = api
        /\ pass.calls[i][2] = verb
        /\ i # pass.fault}

ExistingOf(api) == IF api = "deployments" THEN DOMAIN deployments ELSE DOMAIN services

RerunIsIdempotent(again) ==
    /\ \A api \in {"deployments", "services"} :
          \A i \in 1..Len(again.calls) :
              /\ (again.calls[i][1] = api /\ again.calls[i][2] = "create") =>
                    /\ again.calls[i][3] \notin ExistingOf(api)
                    /\ Succeeded(last, api, "create") = {}
              /\ (again.calls[i][1] = api /\ again.calls[i][2] = "delete") =>
                    again.calls[i][3] # to_name(spec)
    /\ again.error = "Apply" =>
          /\ again.fault = Len(again.calls)
          /\ again.calls[again.fault][2] = "create"
    /\ to_name(spec) \in Owned(deployments) => to_name(spec) \in Owned(again.deps)
    /\ to_name(spec) \in Owned(services) => to_name(spec) \in Owned(again.svcs)
    /\ \A i \in ReplaceStatusCalls(again.calls) : again.calls[i][3] # StatusReason

C20_RerunIsIdempotent ==
    PassEnded =>
        \A fault \in 0..Len(Pass(0).calls) : RerunIsIdempotent(Pass(fault))

\* a retry after a partial failure: the pass created the Service and a later
\* call of it failed
C20_Witness ==
    /\ PassEnded
    /\ Succeeded(last, "services", "create") # {}
    /\ last.ret = "error"
    /\ requeue
    /\ to_name(spec) \in Owned(services)

----------------------------------------------------------------------------
(* C21: once the declaration is deleted no reconcile pass runs, so the      *)
(* operator issues no call on the declaration's Deployment or Service; and  *)
(* every Deployment and Service a pass created carries the declaration's    *)
(* controller owner reference, which is what the garbage collector removes  *)
(* it by.                                                                   *)

OwnedOf(api) == IF api = "deployments" THEN Owned(deployments) ELSE Owned(services)

C21_NoOperatorCleanup ==
    /\ deleted => ~PassEnded
    /\ PassEnded =>
          \A api \in {"deployments", "services"} :
              \A i \in Succeeded(last, api, "create") :
                  last.calls[i][3] \in OwnedOf(api)

\* the declaration is gone, the controller has dropped its key, and the
\* children the operator created are still there for the garbage collector
C21_Witness ==
    /\ deleted
    /\ ~queued
    /\ Owned(deployments) # {}
    /\ Owned(services) # {}

----------------------------------------------------------------------------
(* C22: a pass in which the projection of the Deployment fails for a reason *)
(* other than a quantity reads and writes no status, issues no create,      *)
(* replace or delete, leaves status, Deployments and Services as they were, *)
(* and returns the Generate error, which is requeued.                       *)

C22_OtherProjectionErrorsLeaveStatus ==
    [][ (last'.ran /\ last'.generate \notin {"none", "ok", "CPU", "Memory"}) =>
          /\ last'.ret = "error"
          /\ last'.error = "Generate"
          /\ last'.action.kind = "requeue"
          /\ \A i \in 1..Len(last'.calls) :
                /\ last'.calls[i][1] # "openfaasfunctions"
                /\ last'.calls[i][2] \notin Mutations
          /\ status' = status
          /\ deployments' = deployments
          /\ services' = services
      ]_vars

\* the serialization failed in a pass that found no Deployment of the name and
\* all the Secrets it needs
C22_Witness ==
    /\ PassEnded
    /\ last.generate = "Serialize"
    /\ last.dep_get = "absent"
    /\ spec.secrets # << >>
    /\ requeue

----------------------------------------------------------------------------
(* C23: the node selector made of a constraints list holds exactly the      *)
(* pairs got by splitting each entry that contains "==" at its first "=="   *)
(* and removing the whitespace of both sides; an entry without "==" gives   *)
(* no pair, and "a==b==c" gives the key "a" with the value "b==c".          *)

NodeSelectorPairs(selector) ==
    IF selector = None THEN {}
    ELSE {<<k, selector[1][k]>> : k \in DOMAIN selector[1]}

SplitAtFirst(entry) ==
    LET i == FirstSeparator(entry)
    IN  <<remove_whitespace(SubSeq(entry, 1, i - 1)),
          remove_whitespace(SubSeq(entry, i + 2, Len(entry)))>>

C23_NodeSelectorSplitsAtFirst ==
    "to_node_selector" \in translated =>
        NodeSelectorPairs(node_selector) =
            {SplitAtFirst(constraints[i]) :
                i \in {j \in 1..Len(constraints) : FirstSeparator(constraints[j]) # 0}}

----------------------------------------------------------------------------
(* C24: the argument vector operator_controller_run_args makes of a         *)
(* functions namespace and an update strategy is parsed as the command      *)
(* Operator / Controller / Run with that namespace and that strategy.       *)

C24_RunArgsRoundTrip ==
    "parse_from" \in translated =>
        /\ cli.ok
        /\ cli.command = "Operator/Controller/Run"
        /\ cli.functions_namespace = namesapce
        /\ cli.update_strategy = update_strategy_arg

\* the line of a namespace that is also the name of the subcommand, with the
\* strategy that is not the default, has been parsed
C24_Witness ==
    /\ "parse_from" \in translated
    /\ namesapce = "run"
    /\ update_strategy_arg = "Strategic"
    /\ args[6] = "strategic"

----------------------------------------------------------------------------
(* C25: the steps a pass enters are the first steps of the order            *)
(* declaration-namespace check, function-namespace check, Deployment,       *)
(* Service, Ok write; a pass that entered fewer than all five stopped with  *)
(* an action or an error (or the panic of the drift detector) in the last   *)
(* one it entered; and no call of a step that was not entered is issued:    *)
(* none on Deployments or Secrets without the Deployment step, none on      *)
(* Services without the Service step, no write of Ok without the last step; *)
(* the calls on Deployments come before those on Services, and the write of *)
(* Ok comes last.                                                           *)

StepOrder ==
    <<"check_resource_namespace", "check_function_namespace", "check_deployment",
      "check_service", "set_ready_status">>

C25_StepOrderAndShortCircuit ==
    PassEnded =>
        /\ Len(last.steps) \in 1..Len(StepOrder)
        /\ last.steps = SubSeq(StepOrder, 1, Len(last.steps))
        /\ last.ret \in {"await", "error", "panic"}
        /\ \A i \in 1..Len(last.calls) :
              /\ last.calls[i][1] \in {"deployments", "secrets"} =>
                    EnteredStep("check_deployment")
              /\ last.calls[i][1] = "services" => EnteredStep("check_service")
              /\ (last.calls[i][2] = "replace_status" /\ last.calls[i][3] = "Ok") =>
                    /\ EnteredStep("set_ready_status")
                    /\ i = Len(last.calls)
              /\ \A j \in 1..Len(last.calls) :
                    (i < j /\ last.calls[i][1] = "services") =>
                        last.calls[j][1] \notin {"deployments", "secrets"}
        /\ ~(EnteredStep("check_service") /\ last.dep_get = "absent")
        /\ (last.ret = "await" /\ Len(last.steps) = Len(StepOrder)) =>
              StatusReason = "Ok"

\* a pass that stopped in the Deployment step with an action, the Service of
\* the name not there yet
C25_Witness ==
    /\ PassEnded
    /\ Len(last.steps) = 3
    /\ last.ret = "await"
    /\ to_name(spec) \notin DOMAIN services
    /\ last.calls # << >>

----------------------------------------------------------------------------
(* C26: the deletes of a pass on Deployments (on Services) are of objects   *)
(* that carried the declaration's owner reference before the pass and are   *)
(* not named spec.service; a sweep that listed the objects and had no       *)
(* delete fail deleted every such object; and the objects without the owner *)
(* reference are after the pass what they were before it.                   *)

DeletedBy(pass, api) == {pass.calls[i][3] : i \in Succeeded(pass, api, "delete")}

SweepCompleted(pass, api) ==
    /\ Succeeded(pass, api, "list") # {}
    /\ ~(/\ pass.fault \in 1..Len(pass.calls)
         /\ pass.calls[pass.fault][1] = api
         /\ pass.calls[pass.fault][2] = "delete")

SweepIsPrecise(pass, api, before, after) ==
    LET old == Owned(before) \ {to_name(spec)}
    IN  /\ DeletedBy(pass, api) \subseteq old
        /\ SweepCompleted(pass, api) => DeletedBy(pass, api) = old
        /\ \A n \in DeletedBy(pass, api) : n \notin DOMAIN after
        /\ \A n \in DOMAIN before \ DeletedBy(pass, api) :
              n \in DOMAIN after /\ (n \in Foreign(before) => after[n] = before[n])
        /\ to_name(spec) \in Owned(before) => to_name(spec) \in Owned(after)

C26_SweepPrecision ==
    [][ last'.ran =>
          /\ SweepIsPrecise(last', "deployments", deployments, deployments')
          /\ SweepIsPrecise(last', "services", services, services')
      ]_vars

\* a pass that deleted the owned Deployment of the old name and left the
\* Deployment of somebody else alone
C26_Witness ==
    /\ PassEnded
    /\ DeletedBy(last, "deployments") # {}
    /\ DeletedBy(last, "services") # {}
    /\ to_name(spec) \in Owned(deployments)

----------------------------------------------------------------------------
(* C27: a pass that creates the Deployment deletes nothing; and a pass      *)
(* deletes an owned Deployment or Service only if it observed the           *)
(* Deployment named spec.service owned and with a ready replica.            *)

C27_OldChildrenSurviveUntilReady ==
    [][ last'.ran =>
          LET deleted_children ==
                  DeletedBy(last', "deployments") \cup DeletedBy(last', "services")
          IN  /\ CreatedDeployment(last') => deleted_children = {}
              /\ deleted_children # {} =>
                    /\ last'.seen # None
                    /\ CrdUid \in last'.seen[1].orefs
                    /\ last'.seen[1].ready = "ready_1"
      ]_vars

----------------------------------------------------------------------------
(* C28: a pass that finds a Deployment named spec.service without the       *)
(* declaration's owner reference leaves the status DeploymentAlreadyExists, *)
(* returns await_change, lists and deletes no Deployment and does not enter *)
(* the Service step; a pass that enters the Service step and finds a        *)
(* Service named spec.service without the owner reference leaves the status *)
(* ServiceAlreadyExists, returns await_change, lists and deletes no Service *)
(* and does not enter the Ok write.  A pass with a failing call ends in the *)
(* error instead, the sweeps and later steps equally left out.              *)

PassEntered(pass, step) == \E i \in 1..Len(pass.steps) : pass.steps[i] = step

CallsOn(pass, api, verbs) ==
    {i \in 1..Len(pass.calls) : pass.calls[i][1] = api /\ pass.calls[i][2] \in verbs}

C28_CollisionReporting ==
    [][ last'.ran =>
          /\ (PassEntered(last', "check_deployment")
              /\ last'.dep_get = "present"
              /\ to_name(spec) \in Foreign(deployments)) =>
                /\ last'.fault = 0 =>
                      /\ last'.ret = "await"
                      /\ status' = Some(StatusFrom("DeploymentAlreadyExists"))
                /\ last'.fault # 0 => last'.ret = "error"
                /\ CallsOn(last', "deployments", Mutations \cup {"list"}) = {}
                /\ ~PassEntered(last', "check_service")
                /\ deployments' = deployments
                /\ services' = services
          /\ (PassEntered(last', "check_service")
              /\ Succeeded(last', "services", "get_opt") # {}
              /\ to_name(spec) \in Foreign(services)) =>
                /\ last'.fault = 0 =>
                      /\ last'.ret = "await"
                      /\ status' = Some(StatusFrom("ServiceAlreadyExists"))
                /\ last'.fault # 0 => last'.ret = "error"
                /\ CallsOn(last', "services", Mutations \cup {"list"}) = {}
                /\ ~PassEntered(last', "set_ready_status")
                /\ services' = services
      ]_vars

\* the Deployment step passed and the pass stopped on the Service of somebody
\* else, writing the reason
C28_Witness ==
    /\ PassEnded
    /\ EnteredStep("check_service")
    /\ to_name(spec) \in Foreign(services)
    /\ to_name(spec) \in Owned(deployments)
    /\ <<"openfaasfunctions", "replace_status", "ServiceAlreadyExists">> \in IssuedCalls
    /\ last.ret = "await"

----------------------------------------------------------------------------
(* C29: a pass that finds the Deployment named spec.service owned and       *)
(* without a ready replica (no status, no readyReplicas, or readyReplicas   *)
(* 0) leaves the status DeploymentNotReady, returns await_change, does not  *)
(* reach the drift check, lists, replaces and deletes no Deployment, does   *)
(* not enter the Service step and writes no Ok.                             *)

NotReadyStates == {"no_status", "no_ready_replicas", "ready_0"}

C29_NotReadyGate ==
    [][ (/\ last'.ran
         /\ last'.fault = 0
         /\ last'.dep_get = "present"
         /\ to_name(spec) \in Owned(deployments)
         /\ deployments[to_name(spec)].ready \in NotReadyStates) =>
          /\ last'.ret = "await"
          /\ status' = Some(StatusFrom("DeploymentNotReady"))
          /\ CallsOn(last', "deployments", Mutations \cup {"list"}) = {}
          /\ CallsOn(last', "services", Mutations \cup {"list", "get_opt"}) = {}
          /\ ~PassEntered(last', "check_service")
          /\ ~PassEntered(last', "set_ready_status")
          /\ deployments' = deployments
          /\ services' = services
      ]_vars

----------------------------------------------------------------------------
(* C30: under OneWay, a pass with no failing call that finds the Deployment *)
(* named spec.service owned and ready, the spec valid and its Secrets       *)
(* there, replaces the Deployment with the projection of the current spec   *)
(* and returns await_change when the Deployment does not carry the current  *)
(* spec, and otherwise leaves the Deployment as it is and goes on to list   *)
(* the Deployments for the sweep.                                           *)

C30_OneWayReplace ==
    [][ (/\ last'.ran
         /\ last'.fault = 0
         /\ update_strategy = "OneWay"
         /\ last'.dep_get = "present"
         /\ to_name(spec) \in Owned(deployments)
         /\ deployments[to_name(spec)].ready = "ready_1"
         /\ ValidSpec
         /\ MissingSecrets = {}) =>
          IF CarriesCurrentSpec(deployments[to_name(spec)])
          THEN /\ deployments'[to_name(spec)] = deployments[to_name(spec)]
               /\ CallsOn(last', "deployments", {"create", "replace"}) = {}
               /\ CallsOn(last', "deployments", {"list"}) # {}
          ELSE /\ CallsOn(last', "deployments", {"replace"}) # {}
               /\ CarriesCurrentSpec(deployments'[to_name(spec)])
               /\ last'.ret = "await"
      ]_vars

----------------------------------------------------------------------------
(* C31: a pass whose create or replace of the Deployment succeeded returns  *)
(* await_change with that call as its last one: it issues no other create,  *)
(* replace or delete, reads and writes no status, and leaves the status,    *)
(* the Services and the other Deployments as they were.                     *)

DeploymentWrites(pass) ==
    Succeeded(pass, "deployments", "create") \cup Succeeded(pass, "deployments", "replace")

C31_DeploymentWriteEndsThePass ==
    [][ (last'.ran /\ DeploymentWrites(last') # {}) =>
          /\ last'.ret = "await"
          /\ DeploymentWrites(last') = {Len(last'.calls)}
          /\ \A i \in 1..(Len(last'.calls) - 1) :
                /\ last'.calls[i][2] \notin Mutations
                /\ last'.calls[i][1] # "openfaasfunctions"
          /\ status' = status
          /\ services' = services
          /\ \A n \in DOMAIN deployments :
                n \in DOMAIN deployments' /\ deployments'[n] = deployments[n]
      ]_vars

\* the pass created the Deployment of the new name while the owned Deployment
\* and Service of the old name were there to be swept
C31_Witness ==
    /\ PassEnded
    /\ Succeeded(last, "deployments", "create") # {}
    /\ Cardinality(Owned(deployments)) = 2
    /\ Owned(services) # {}
    /\ to_name(spec) \notin DOMAIN services

----------------------------------------------------------------------------
(* C32: the scope of the secrets check.  The statement that the check runs  *)
(* only where an absent Deployment is created, and that a pass which finds  *)
(* the Deployment present, the replace of an owned one included, lists no   *)
(* Secrets and writes no SecretsNotFound.                                   *)

\* the replace arm of check_existing_deployment (controller/mod.rs:405-413),
\* entered in the current state with the given failing call
ReplaceArm(fault) == create_deployment(Context(fault), Crd, "Replace")

\* the index of the last call of a non-empty set of call indices
Latest(indices) == CHOOSE m \in indices : \A n \in indices : n <= m

WantsSecrets == get_secrets_unique_vec(spec) # << >>

PresentPassListsNoSecrets ==
    (PassEnded /\ last.dep_get = "present") =>
        /\ CallsOn(last, "secrets", {"list"}) = {}
        /\ "SecretsNotFound" \notin StatusWrites

----------------------------------------------------------------------------
(* C33: a pass that enters check_service and finds no Service named         *)
(* spec.service creates it with the controller owner reference and goes on  *)
(* in the same pass: it lists the Services for the sweep and, with no       *)
(* failing call, ends in await_change with the status Ok.  A Service of     *)
(* that name carrying the owner reference is left exactly as it is,         *)
(* whatever spec it was created from, and no pass issues a replace or a     *)
(* patch on Services.                                                       *)

C33_ServiceSubreconciler ==
    [][ (last'.ran /\ PassEntered(last', "check_service")) =>
          LET name == to_name(spec)
              created == Succeeded(last', "services", "create")
          IN  /\ CallsOn(last', "services", {"replace", "patch"}) = {}
              /\ name \notin DeletedBy(last', "services")
              /\ (name \notin DOMAIN services /\ last'.fault = 0) => created # {}
              /\ created # {} =>
                    /\ name \notin DOMAIN services
                    /\ name \in DOMAIN services'
                    /\ services'[name].orefs = {CrdUid}
                    /\ services'[name].annotation = to_meta_annotations(spec)
                    /\ \E i \in CallsOn(last', "services", {"list"}) :
                          Latest(created) < i
                    /\ last'.fault = 0 =>
                          /\ PassEntered(last', "set_ready_status")
                          /\ last'.ret = "await"
                          /\ status' = Some(StatusFrom("Ok"))
              /\ name \in Owned(services) =>
                    /\ created = {}
                    /\ name \in DOMAIN services'
                    /\ services'[name] = services[name]
      ]_vars

\* one pass created the Service, swept the owned Service of the old name and
\* wrote Ok
C33_Witness ==
    /\ PassEnded
    /\ Succeeded(last, "services", "create") # {}
    /\ DeletedBy(last, "services") # {}
    /\ "Ok" \in StatusWrites
    /\ StatusReason = "Ok"

----------------------------------------------------------------------------
----------------------------------------------------------------------------
(* C35: a pass creates the Service named spec.service only after it found   *)
(* the Deployment of that name present, carrying the owner reference and    *)
(* ready (status.readyReplicas of at least one), and issued no create or    *)
(* replace of the Deployment itself.                                        *)
C35_ServiceFollowsReadiness ==
    (PassEnded /\ CallsOn(last, "services", {"create"}) # {}) =>
        /\ last.dep_get = "present"
        /\ ObservedOwned
        /\ last.seen[1].ready = "ready_1"
        /\ CallsOn(last, "deployments", {"create", "replace"}) = {}

----------------------------------------------------------------------------
(* C36: two declarations of the functions namespace with the same           *)
(* spec.service, their passes interleaved call by call.  At every moment at *)
(* most one of them owns the Deployment and the Service of that name; an    *)
(* object of that name, once there, is never deleted and keeps its owner    *)
(* and its content; every object that disappears was owned by the           *)
(* declaration whose pass deleted it.  A pass that got a Deployment of the  *)
(* other declaration ends with DeploymentAlreadyExists and await_change and *)
(* touches no child.  A pass that got no Deployment while one has been      *)
(* created since loses the create: it ends in the Apply error, which        *)
(* on_error answers with a 10 s requeue, and changes neither the children   *)
(* nor its status.                                                          *)

SharedName == to_name(spec)

OwnersOf(name) ==
    {d \in Declarations :
        \/ name \in DOMAIN deployments /\ Uids[d] \in deployments[name].orefs
        \/ name \in DOMAIN services /\ Uids[d] \in services[name].orefs}

\* the pass of the declaration returns in this step
PassOfEnds(d) == declarations[d].pc # "idle" /\ declarations'[d].pc = "idle"

KeepsNamed(objects, after) ==
    SharedName \in DOMAIN objects =>
        /\ SharedName \in DOMAIN after
        /\ after[SharedName].orefs = objects[SharedName].orefs
        /\ after[SharedName].annotation = objects[SharedName].annotation

DeletedByOwner(objects, after) ==
    \A n \in DOMAIN objects \ DOMAIN after :
        \E d \in Declarations :
            /\ declarations'[d] # declarations[d]
            /\ Uids[d] \in objects[n].orefs

C36_SharedServiceName ==
    [][ /\ Cardinality(OwnersOf(SharedName)') <= 1
        /\ KeepsNamed(deployments, deployments')
        /\ KeepsNamed(services, services')
        /\ DeletedByOwner(deployments, deployments')
        /\ DeletedByOwner(services, services')
        /\ \A d \in Declarations :
              PassOfEnds(d) =>
                  LET pass == declarations'[d]
                  IN  /\ (pass.dep # None /\ Uids[d] \notin pass.dep[1].orefs) =>
                            /\ pass.ret = "await"
                            /\ pass.status = Some(StatusFrom("DeploymentAlreadyExists"))
                            /\ UNCHANGED <<deployments, services>>
                      /\ (pass.dep = None /\ SharedName \in DOMAIN deployments) =>
                            pass.error = "Apply"
                      /\ pass.error = "Apply" =>
                            /\ pass.dep = None
                            /\ SharedName \in DOMAIN deployments
                            /\ Uids[d] \notin deployments[SharedName].orefs
                            /\ pass.ret = "error"
                            /\ pass.action = [kind |-> "requeue", seconds |-> 10]
                            /\ pass.requeue
                            /\ pass.status = declarations[d].status
                            /\ UNCHANGED <<deployments, services>>
      ]_vars

\* both passes got no Deployment; one created it and owns it, the other has
\* just lost the create and waits for its requeue
C36_Witness ==
    \E d \in Declarations :
        /\ declarations[d].pc = "idle"
        /\ declarations[d].error = "Apply"
        /\ declarations[d].requeue
        /\ OwnersOf(SharedName) = Declarations \ {d}

----------------------------------------------------------------------------
(* C37: under OneWay, a pass with no failing call that finds the Deployment *)
(* named spec.service owned, ready and projected from another spec than the *)
(* current one, while a secret of the spec is missing, issues no replace,   *)
(* leaves the Deployment as it is, leaves the status SecretsNotFound and    *)
(* returns await_change.                                                    *)
C37_MissingSecretOnReplace ==
    [][ (/\ last'.ran
         /\ update_strategy = "OneWay"
         /\ last'.fault = 0
         /\ PassEntered(last', "check_deployment")
         /\ to_name(spec) \in Owned(deployments)
         /\ deployments[to_name(spec)].ready = "ready_1"
         /\ ~CarriesCurrentSpec(deployments[to_name(spec)])
         /\ MissingSecrets # {}) =>
            /\ CallsOn(last', "deployments", {"replace"}) = {}
            /\ deployments' = deployments
            /\ status' = Some(StatusFrom("SecretsNotFound"))
            /\ last'.ret = "await"
      ]_vars

----------------------------------------------------------------------------
(* C38: while spec.namespace names another namespace than the configured    *)
(* functions namespace, every pass stops in check_function_namespace: it    *)
(* issues no call on Deployments, Services or Secrets and leaves the        *)
(* children the declaration owns exactly as they are; with no failing call  *)
(* it leaves the status InvalidFunctionNamespace and returns await_change,  *)
(* with a failing call it ends in the error and the status is unchanged.    *)
(* Once InvalidFunctionNamespace is persisted no step changes the status    *)
(* as long as the spec keeps the namespace.                                 *)
C38_NamespaceChangeLeavesChildren ==
    [][ /\ (last'.ran /\ WrongFunctionNamespace) =>
              /\ last'.steps = <<"check_resource_namespace", "check_function_namespace">>
              /\ \A i \in 1..Len(last'.calls) : last'.calls[i][1] = "openfaasfunctions"
              /\ UNCHANGED <<deployments, services, secrets, spec>>
              /\ last'.fault = 0 =>
                    /\ last'.ret = "await"
                    /\ status' = Some(StatusFrom("InvalidFunctionNamespace"))
              /\ last'.fault # 0 =>
                    /\ last'.ret = "error"
                    /\ status' = status
        /\ (WrongFunctionNamespace /\ StatusReason = "InvalidFunctionNamespace") =>
              status' = status
      ]_vars

\* the declaration owns a Deployment and a Service, its spec.namespace was
\* then set to another namespace and a pass has stopped on it
C38_Witness ==
    /\ PassEnded
    /\ WrongFunctionNamespace
    /\ to_name(spec) \in Owned(deployments)
    /\ to_name(spec) \in Owned(services)
    /\ ~CarriesCurrentSpec(deployments[to_name(spec)])
    /\ "InvalidFunctionNamespace" \in StatusWrites
    /\ StatusReason = "InvalidFunctionNamespace"

----------------------------------------------------------------------------
(* C39: the frame of a reconcile pass.  On the declarations a pass issues   *)
(* get_status and replace_status only, and the declaration's spec and       *)
(* namespace are the same after the pass; on Secrets a pass issues list     *)
(* only, and the Secrets are the same after the pass.                       *)
C39_ReconcileFrame ==
    [][ last'.ran =>
          /\ UNCHANGED <<spec, crd_namespace, secrets, deleted>>
          /\ \A i \in 1..Len(last'.calls) :
                /\ last'.calls[i][1] \in
                       {"openfaasfunctions", "deployments", "services", "secrets"}
                /\ last'.calls[i][1] = "openfaasfunctions" =>
                       last'.calls[i][2] \in {"get_status", "replace_status"}
                /\ last'.calls[i][1] = "secrets" => last'.calls[i][2] = "list"
      ]_vars

\* a pass listed the Secrets, found one missing and wrote the status
C39_Witness ==
    /\ PassEnded
    /\ CallsOn(last, "secrets", {"list"}) # {}
    /\ MissingSecrets # {}
    /\ "SecretsNotFound" \in StatusWrites
    /\ StatusReason = "SecretsNotFound"

----------------------------------------------------------------------------
(* C40: a pass in which the list or a delete of the Deployment sweep or of  *)
(* the Service sweep fails ends in the error with that call as its last,    *)
(* is requeued after 10 s, writes no status, and leaves the children as the *)
(* deletes it had performed before left them (with the Service it created  *)
(* before the sweep, if it did).  The next pass without a                   *)
(* failing call, run in the state the failed one left, removes every owned  *)
(* Deployment of another name and, unless a foreign Service has the name,   *)
(* every owned Service of another name, and writes Ok.                      *)

SweepFailed(pass) ==
    /\ pass.fault \in 1..Len(pass.calls)
    /\ pass.calls[pass.fault][1] \in {"deployments", "services"}
    /\ pass.calls[pass.fault][2] \in {"list", "delete"}

CreatedBy(pass, api) == {pass.calls[i][3] : i \in Succeeded(pass, api, "create")}

Without(objects, names) == [n \in DOMAIN objects \ names |-> objects[n]]

FailedSweepEndsInError ==
    (last'.ran /\ SweepFailed(last')) =>
        /\ last'.ret = "error"
        /\ last'.error \in {"List", "Delete"}
        /\ last'.fault = Len(last'.calls)
        /\ last'.action = [kind |-> "requeue", seconds |-> 10]
        /\ requeue'
        /\ ReplaceStatusCalls(last'.calls) = {}
        /\ status' = status
        /\ deployments' = Without(deployments, DeletedBy(last', "deployments"))
        /\ Without(services', CreatedBy(last', "services"))
               = Without(services, DeletedBy(last', "services"))

LaterPassFinishesSweep ==
    (PassEnded /\ SweepFailed(last)) =>
        LET again == Pass(0)
        IN  /\ Owned(again.deps) \subseteq {to_name(spec)}
            /\ to_name(spec) \notin Foreign(services) =>
                  /\ Owned(again.svcs) \subseteq {to_name(spec)}
                  /\ again.ret = "await"
                  /\ again.status = Some(StatusFrom("Ok"))

C40_FailedSweepDoesNotReportOk ==
    /\ [][FailedSweepEndsInError]_vars
    /\ []LaterPassFinishesSweep

\* the pass deleted the old Deployment, then a call of the Service sweep
\* failed and the old Service is still there
C40_Witness ==
    /\ PassEnded
    /\ SweepFailed(last)
    /\ last.calls[last.fault][1] = "services"
    /\ DeletedBy(last, "deployments") # {}
    /\ Owned(services) \ {to_name(spec)} # {}
    /\ StatusReason # "Ok"

====
